---------------------------- MODULE Spec2Model ----------------------------
(***************************************************************************)
(* Model of datalogger.ino: the sleep/wake scheduler (loop,                *)
(* enterLightSleep), the log store on the SD card (reinitSD, logData,      *)
(* verifyLastWrite, rotateLogFile, countLogEntries) and the asynchronous   *)
(* DS18B20 conversion.                                                     *)
(*                                                                         *)
(* Time is counted in seconds and moves in steps of one sleep slice        *)
(* (SLICE_SEC); shorter delays are below the resolution of the model.  The *)
(* millis() deadlines of the sketch are kept as ages (seconds since the    *)
(* recorded instant).  The RTC reading and lastMeasureUnix are only ever    *)
(* compared and subtracted (lines 1132-1134, 1329-1332), so the pair is    *)
(* kept modulo a common shift of the epoch: the smaller of the two is      *)
(* always 0.                                                               *)
(***************************************************************************)
EXTENDS Integers, Sequences, FiniteSets, TLC

\* ------------------------------------------------------------------------
\* Program constants (datalogger.ino)
\* ------------------------------------------------------------------------
INTERVAL_NO_SD == 60
INTERVAL_SD == 240
MAX_SLEEP_SEC == 268
SD_SHUTDOWN_SEC == 30
RTC_WAKE_SEC == 250
SLICE_SEC == 5
DISPLAY_TICKS == 20
LONG_PRESS_MS == 15000
SD_RETRY_INTERVAL == 60000
LOG_COUNT_UPDATE_INTERVAL == 30000
SD_MAX_RETRIES == 5
MAX_LOG_RETRIES == 2
BOOT_RETRIES == 3
DEBOUNCE_MS == 5000
ROTATE_MSG_MS == 2000

\* ------------------------------------------------------------------------
\* Bounds of the model
\* ------------------------------------------------------------------------
\* newline characters a file can hold before the card is full
MaxNl == 3
\* bytes of one printed line; a write of fewer bytes is a short write
RowLen == 2
\* handler runs in which the card or the probe fails
MaxFaults == 1
\* largest sdFailCount the model tells apart: FailCap stands for every
\* larger value of the 8-bit counter
FailCap == 6
\* button presses and clock changes between two measurements
MaxEvents == 1
\* largest clock difference the model tells apart (seconds)
MaxUnix == 250
\* how far the environment sets the clock back (in slices)
SetBackSlices == 20
\* seconds a pressed button can stay held after the wake
HoldSecs == {0, 15}
\* largest clock reading and largest lastMeasureUnix given to the interval
\* arithmetic on its own
MaxCalcUnix == 300
MaxCalcLast == 20

VARIABLES
    \* globals of the sketch
    sdAvailable, rtcOK, ds18b20OK, displayOn, isMeasuring,
    displayUpdateCount, logCount, lastMeasureUnix, interval,
    dsConvPending, sdFailCount, isBootPhase, logCountAge,
    \* control position and locals
    pc, ret, remaining, elapsed, longSleep, useRtcWake, retryCount,
    written, fOpen, nowUnix, holdAge, verifyOK, verCounted, actualCount,
    \* environment: button line, RTC, card
    button, rtcUnix, sdMounted, fileExists, fileNl, fileTail,
    sdRetryAge, events, faults, cardMode,
    \* history
    cut, cntBefore, logResult, tracked, recreated,
    \* the SHT3x and the reading of the DS18B20 (followed in SpecSens)
    shtOK, sht_retry_counter, waterTempValid, shtProbed, sentinel,
    \* the clock of the asynchronous conversion (followed in SpecConv)
    millisNow, dsConvReadyAt, convMs, convAge, convWaited, dsRead,
    \* the Reading held in data and the row logData formats (followed in
    \* SpecRow)
    shtValid, dataT, dataH, dataTd, dataWater, dataTs, row,
    \* the lines of /data.csv and historicalData (followed in SpecHist)
    csv, hist,
    \* the slices of the sleep loop second by second (followed in SpecNap)
    sliceLen, sliceLeft, slices, remaining0, sincePress,
    \* the DS18B20 driver: its wait-for-conversion mode and the conversion
    \* whose result the scratchpad holds, and the conversion data.tWater
    \* was read from (followed in SpecDrv)
    waitForConversion, scratch, tWaterFrom

vars == <<sdAvailable, rtcOK, ds18b20OK, displayOn, isMeasuring,
          displayUpdateCount, logCount, lastMeasureUnix, interval,
          dsConvPending, sdFailCount, isBootPhase, logCountAge,
          pc, ret, remaining, elapsed, longSleep, useRtcWake, retryCount,
          written, fOpen, nowUnix, holdAge, verifyOK, verCounted, actualCount,
          button, rtcUnix, sdMounted, fileExists, fileNl, fileTail,
          sdRetryAge, events, faults, cardMode,
          cut, cntBefore, logResult, tracked, recreated,
          shtOK, sht_retry_counter, waterTempValid, shtProbed, sentinel,
          millisNow, dsConvReadyAt, convMs, convAge, convWaited, dsRead,
          shtValid, dataT, dataH, dataTd, dataWater, dataTs, row, csv, hist,
          sliceLen, sliceLeft, slices, remaining0, sincePress,
          waitForConversion, scratch, tWaterFrom>>

Min(a, b) == IF a < b THEN a ELSE b
Max(a, b) == IF a > b THEN a ELSE b

\* ------------------------------------------------------------------------
\* Interval arithmetic (loop, enterLightSleep)
\* ------------------------------------------------------------------------

\* elapsed as the wrapped difference of a 16-bit unsigned subtraction,
\* without the guard
ElapsedWrapped(now, last) == (now - last) % 65536

\* uint32_t elapsed = (nowUnix >= lastMeasureUnix) ? (nowUnix - lastMeasureUnix) : 0;
Elapsed(now, last) == IF now >= last THEN now - last ELSE 0

\* a sleep duration that starts from the cap MAX_SLEEP_SEC, not from
\* interval, when there is no clock
SleepRemainingFromCap(ivl, now, last, ok) ==
    LET r0 == IF ok
              THEN (IF Elapsed(now, last) < ivl THEN ivl - Elapsed(now, last) ELSE 1)
              ELSE MAX_SLEEP_SEC
        r1 == IF r0 > MAX_SLEEP_SEC THEN MAX_SLEEP_SEC ELSE r0
    IN  IF r1 = 0 THEN 1 ELSE r1

\* the sleep duration without the lower clamp
SleepRemainingNoFloor(ivl, now, last, ok) ==
    LET r0 == IF ok
              THEN (IF Elapsed(now, last) < ivl THEN ivl - Elapsed(now, last) ELSE 0)
              ELSE ivl
    IN  IF r0 > MAX_SLEEP_SEC THEN MAX_SLEEP_SEC ELSE r0

\* enterLightSleep: remaining = interval; if (rtcOK) remaining = (elapsed < interval) ?
\* (interval - elapsed) : 1; clamped to MAX_SLEEP_SEC and raised from 0 to 1
SleepRemaining(ivl, now, last, ok) ==
    LET r0 == IF ok
              THEN (IF Elapsed(now, last) < ivl THEN ivl - Elapsed(now, last) ELSE 1)
              ELSE ivl
        r1 == IF r0 > MAX_SLEEP_SEC THEN MAX_SLEEP_SEC ELSE r0
    IN  IF r1 = 0 THEN 1 ELSE r1

\* loop: if (elapsed >= interval) measureAndLog();
MeasureDue(ivl, now, last) == Elapsed(now, last) >= ivl


\* ------------------------------------------------------------------------
\* The card and /data.csv
\* ------------------------------------------------------------------------
\* Storage state handed through the card operations: the SD library being
\* mounted, /data.csv (existence, number of '\n' characters, an unterminated
\* partial line at its end) and the sketch's sdAvailable, sdFailCount,
\* interval, logCount and the age of lastSDRetry.
St == [mounted |-> sdMounted, exists |-> fileExists, nl |-> fileNl,
       tail |-> fileTail, avail |-> sdAvailable, fail |-> sdFailCount,
       ivl |-> interval, age |-> sdRetryAge, lc |-> logCount]

SetSt(s) ==
    /\ sdMounted' = s.mounted
    /\ fileExists' = s.exists
    /\ fileNl' = s.nl
    /\ fileTail' = s.tail
    /\ sdAvailable' = s.avail
    /\ sdFailCount' = s.fail
    /\ interval' = s.ivl
    /\ sdRetryAge' = s.age
    /\ logCount' = s.lc

\* Outcomes of the card operations of one handler: which library call fails
\* (SD.begin, SD.type, SD.exists, SD.open for reading, for writing, the open
\* of the counting pass, SD.rename, SD.remove), how many bytes a println
\* writes, and whether sdFailCount stood at 255 (wrap).
NoFault == [begin |-> TRUE, card |-> TRUE, exists |-> TRUE, openR |-> TRUE,
            openW |-> TRUE, openC |-> TRUE, rename |-> TRUE, remove |-> TRUE,
            wr |-> RowLen, wrap |-> FALSE]

FaultOps == {"begin", "card", "exists", "openR", "openW", "openC", "rename"}

\* the outcomes that matter to a handler that only counts the rows
CountFaults == {NoFault, [NoFault EXCEPT !.openC = FALSE]}

FaultSet ==
    {NoFault}
    \cup {[NoFault EXCEPT ![k] = FALSE] : k \in FaultOps}
    \cup {[NoFault EXCEPT !.wr = w] : w \in 0..(RowLen - 1)}
    \cup {[NoFault EXCEPT !.rename = FALSE, !.remove = FALSE]}

\* no card in the slot: every call of the library fails
Absent == [begin |-> FALSE, card |-> FALSE, exists |-> FALSE, openR |-> FALSE,
           openW |-> FALSE, openC |-> FALSE, rename |-> FALSE, remove |-> FALSE,
           wr |-> 0, wrap |-> FALSE]

\* The card of a run is good (no call fails), absent (there is none in the
\* slot once setup() is over: none ever was, or it was taken out), or faulty:
\* it fails in at most MaxFaults handler runs, and a failing probe counts as
\* one too.
Faulty == cardMode = "faulty" /\ faults < MaxFaults

CardOutcomes ==
    IF cardMode = "absent" THEN {Absent, [Absent EXCEPT !.wrap = TRUE]}
    ELSE IF Faulty THEN FaultSet ELSE {NoFault}

CountOutcomes ==
    IF cardMode = "absent" THEN {Absent}
    ELSE IF Faulty THEN CountFaults ELSE {NoFault}

WriteOutcomes ==
    IF cardMode = "absent" THEN {0}
    ELSE IF Faulty THEN 0..RowLen ELSE {RowLen}

\* the outcomes of a read of the DS18B20: a value or a sentinel code
ProbeOutcomes == IF Faulty THEN BOOLEAN ELSE {TRUE}

\* the card as setup() finds it: a card that is absent later may still be
\* there
BootOutcomes == IF cardMode = "absent" THEN {Absent, NoFault} ELSE CardOutcomes

\* the probe as initSensors() finds it: a probe that is not connected is
\* part of the fault budget of a faulty card, and free otherwise
BootProbe == IF cardMode = "faulty" THEN ProbeOutcomes ELSE BOOLEAN

Charge(bad) == faults' = IF bad /\ cardMode = "faulty" THEN faults + 1 ELSE faults

\* SD.exists("/data.csv")
Exists(s, f) == s.mounted /\ s.exists /\ f.exists

\* SD.exists("/data.csv") asked again after the file was written
Found(s) == s.mounted /\ s.exists

\* SD.open("/data.csv", FILE_READ)
CanOpenR(s, f) == s.mounted /\ s.exists /\ f.openR

\* SD.open("/data.csv", FILE_WRITE): creates the file when it is missing
CanOpenW(s, f) == s.mounted /\ f.openW

\* File::size() == 0
Size0(s) == s.nl = 0 /\ ~s.tail

\* bytes a println of one line returns: nothing once the card is full
Written(s, w) == IF s.nl >= MaxNl THEN 0 ELSE w

\* File::println on the open file: a full line adds one '\n' (and ends a
\* partial line left by a short write), a short write leaves a partial line
Println(s, w) ==
    IF Written(s, w) = RowLen
    THEN [s EXCEPT !.exists = TRUE, !.nl = @ + 1, !.tail = FALSE]
    ELSE IF Written(s, w) > 0
         THEN [s EXCEPT !.exists = TRUE, !.tail = TRUE]
         ELSE [s EXCEPT !.exists = TRUE]

\* SD.remove / a successful SD.rename of /data.csv
Removed(s) == [s EXCEPT !.exists = FALSE, !.nl = 0, !.tail = FALSE]

\* the count a counting pass over the file yields: '\n' characters after
\* the first one
CountRows(s) == IF s.nl = 0 THEN 0 ELSE s.nl - 1

\* countLogEntries()
CountLogEntries(s, f) ==
    IF ~s.avail THEN 0
    ELSE IF ~(s.mounted /\ s.exists /\ f.openC) THEN 0
    ELSE CountRows(s)

\* sdFailCount++ on the 8-bit counter: exact below FailCap; at FailCap the
\* counter stays large or wraps from 255 to 0
IncFail(n, wrap) == IF n < FailCap THEN n + 1 ELSE IF wrap THEN 0 ELSE FailCap

\* a success that leaves the failure counter as it is
ReinitOkKeepFail(x) ==
    [st |-> [x EXCEPT !.avail = TRUE, !.ivl = INTERVAL_SD], ok |-> TRUE]

\* the success branch of reinitSD(), lines 335-338
ReinitOk(x) ==
    [st |-> [x EXCEPT !.avail = TRUE, !.fail = 0, !.ivl = INTERVAL_SD],
     ok |-> TRUE]

\* one iteration of the retry loop of reinitSD
ReinitAttempt(s, f) ==
    LET g == f
        s0 == [s EXCEPT !.age = 0]
        Fail(x) == [st |-> [x EXCEPT !.fail = IncFail(@, g.wrap), !.mounted = FALSE],
                    ok |-> FALSE]
        Ok(x) == ReinitOk(x)
        m == [s0 EXCEPT !.mounted = TRUE]
    IN  IF ~g.begin THEN Fail(s0)
        ELSE IF ~g.card THEN Fail(m)
        ELSE IF ~Exists(m, g)
        THEN \* data.csv not found: create it and verify the creation
             IF ~CanOpenW(m, g) THEN Fail(m)
             ELSE LET c == Println(m, g.wr)
                  IN  IF Found(c) /\ CanOpenR(c, g) /\ ~Size0(c)
                      THEN Ok(c) ELSE Fail(c)
        ELSE \* data.csv exists
             IF ~CanOpenR(m, g)
             THEN \* recovery: remove the file and create a new one
                  LET d == IF g.remove THEN Removed(m) ELSE m
                  IN  IF ~CanOpenW(d, g) THEN Fail(d)
                      ELSE Ok(Println(d, g.wr))
             ELSE Ok(m)

RECURSIVE ReinitLoop(_, _, _, _)
ReinitLoop(s, fs, i, n) ==
    LET a == ReinitAttempt(s, fs[i])
    IN  IF a.ok \/ i >= n THEN a ELSE ReinitLoop(a.st, fs, i + 1, n)

\* reinitSD(): fs are the card's outcomes in the successive attempts
ReinitSD(s, boot, fs) ==
    IF ~boot /\ s.fail > 0 /\ s.age < SD_RETRY_INTERVAL \div 1000
    THEN [st |-> s, ok |-> FALSE]
    ELSE ReinitLoop(s, fs, 1, IF boot THEN BOOT_RETRIES ELSE 1)

\* File::size() < 10: the header and every row are longer than 10 bytes, and
\* so is taken the partial line a short write leaves
TooSmall(s) == s.nl = 0 /\ ~s.tail

\* verifyLastWrite that keeps the tracked count when fewer rows are found
VerifyLastWriteNoResync(s, f) ==
    IF ~s.avail
    THEN [st |-> s, ok |-> FALSE, counted |-> FALSE, actual |-> 0]
    ELSE IF ~CanOpenR(s, f)
    THEN [st |-> [s EXCEPT !.mounted = FALSE, !.avail = FALSE],
          ok |-> FALSE, counted |-> FALSE, actual |-> 0]
    ELSE IF TooSmall(s)
    THEN [st |-> s, ok |-> FALSE, counted |-> FALSE, actual |-> 0]
    ELSE LET a == CountLogEntries(s, f)
         IN  [st |-> [s EXCEPT !.lc = Max(a, s.lc)], ok |-> (a >= s.lc),
              counted |-> TRUE, actual |-> a]

\* verifyLastWrite(): counted tells whether the counting pass was reached
VerifyLastWrite(s, f) ==
    IF ~s.avail
    THEN [st |-> s, ok |-> FALSE, counted |-> FALSE, actual |-> 0]
    ELSE IF ~CanOpenR(s, f)
    THEN [st |-> [s EXCEPT !.mounted = FALSE, !.avail = FALSE],
          ok |-> FALSE, counted |-> FALSE, actual |-> 0]
    ELSE IF TooSmall(s)
    THEN [st |-> s, ok |-> FALSE, counted |-> FALSE, actual |-> 0]
    ELSE LET a == CountLogEntries(s, f)
         IN  [st |-> [s EXCEPT !.lc = a], ok |-> (a >= s.lc),
              counted |-> TRUE, actual |-> a]

\* rotateLogFile()
RotateLogFile(s, f) ==
    LET r == IF ~s.avail THEN ReinitSD(s, FALSE, <<f>>)
             ELSE [st |-> s, ok |-> TRUE]
        s1 == r.st
        s2 == IF Exists(s1, f)
              THEN (IF f.rename \/ f.remove THEN Removed(s1) ELSE s1)
              ELSE s1
        s3 == Println(s2, f.wr)
    IN  IF ~r.ok THEN [st |-> s1, ok |-> FALSE]
        ELSE IF ~CanOpenW(s2, f)
        THEN [st |-> [s2 EXCEPT !.avail = FALSE], ok |-> FALSE]
        ELSE IF ~(Found(s3) /\ CanOpenR(s3, f) /\ ~Size0(s3))
        THEN [st |-> [s3 EXCEPT !.avail = FALSE], ok |-> FALSE]
        ELSE [st |-> [s3 EXCEPT !.lc = 0], ok |-> TRUE]

\* logData, lines 569-586, without the reset of the count
RecreateKeepCount(s, w) == Println(s, w)

\* logData, lines 569-586: the missing data.csv is created with the header
\* and logCount is set to 0
Recreate(s, w) == [Println(s, w) EXCEPT !.lc = 0]

\* a shutdown that does not look at sdAvailable
EndSDAlways(s) == [s EXCEPT !.mounted = FALSE]

\* endSD(): the card is shut down only when sdAvailable
EndSD(s) == IF s.avail THEN [s EXCEPT !.mounted = FALSE] ELSE s


\* ------------------------------------------------------------------------
\* Variable groups
\* ------------------------------------------------------------------------
storeVars == <<sdMounted, fileExists, fileNl, fileTail, sdAvailable,
               sdFailCount, interval, sdRetryAge, logCount>>
clockVars == <<rtcUnix, lastMeasureUnix>>
sensVars == <<ds18b20OK, dsConvPending>>
dispVars == <<displayOn, displayUpdateCount, logCountAge>>
logLocals == <<retryCount, written, fOpen, cntBefore, logResult, recreated>>
verLocals == <<verifyOK, verCounted, actualCount, tracked>>
sleepLocals == <<remaining, elapsed, longSleep, useRtcWake, cut>>
envVars == <<button, events>>
shtVars == <<shtOK, sht_retry_counter, waterTempValid, shtProbed, sentinel>>
convVars == <<millisNow, dsConvReadyAt, convMs, convAge, convWaited, dsRead>>
rowVars == <<shtValid, dataT, dataH, dataTd, dataWater, dataTs, row>>
histVars == <<csv, hist>>
napVars == <<sliceLen, sliceLeft, slices, remaining0, sincePress>>
drvVars == <<waitForConversion, scratch, tWaterFrom>>
probeVars == <<shtVars, convVars, rowVars, histVars, napVars, drvVars>>

\* outside the sleep loop
NapIdle ==
    /\ sliceLen = 0 /\ sliceLeft = 0 /\ slices = 0 /\ remaining0 = 0
    /\ sincePress = 0

\* the driver after ds18b20.begin() (line 1047): it waits for a conversion
\* it requests, and no conversion has been made
DrvIdle == waitForConversion = TRUE /\ scratch = 0 /\ tWaterFrom = 0

\* no row formatted yet: every text field empty
\* a time stamp is known by its origin (the clock, or the placeholder
\* DateTime(2023, 1, 1, 0, 0, 0)) and by the cycle in which it was taken
NoStamp == [kind |-> "none", cyc |-> 0]

NoRow ==
    [tsUtc |-> NoStamp, tsLocal |-> NoStamp, t |-> 0, h |-> 0, td |-> 0,
     w |-> 0, sht_ok |-> 0, water_ok |-> 0]

\* the Reading before the first measurement (the zeroed global data,
\* lines 109-115)
RowIdle ==
    /\ shtValid = FALSE /\ dataT = 0 /\ dataH = 0 /\ dataTd = 0
    /\ dataWater = 0 /\ dataTs = NoStamp /\ row = NoRow

\* historicalData as readLastMeasurements() resets it, lines 383-388
NoHist ==
    [valid |-> FALSE, t |-> <<0, 0, 0>>, h |-> <<0, 0, 0>>,
     tWater |-> <<0, 0, 0>>]

HistIdle == csv = <<>> /\ hist = NoHist

\* the sensor readings and the conversion clock at rest: Spec, LiveSpec,
\* SpecCalc, SpecStore and SpecRetry follow the card, the clock and the
\* display, and leave the values read from the sensors out
ProbeIdle ==
    /\ shtOK = FALSE /\ sht_retry_counter = 0 /\ waterTempValid = FALSE
    /\ shtProbed = FALSE /\ sentinel = FALSE
    /\ millisNow = 0 /\ dsConvReadyAt = 0 /\ convMs = 0 /\ convAge = 0
    /\ convWaited = 0 /\ dsRead = "none"
    /\ RowIdle /\ HistIdle /\ NapIdle /\ DrvIdle

\* ------------------------------------------------------------------------
\* Passing time
\* ------------------------------------------------------------------------
\* a delay in whole slices
Quant(ms) == ((ms \div 1000) \div SLICE_SEC) * SLICE_SEC

\* the age of lastSDRetry after dt seconds; it is read only while
\* sdFailCount > 0 (line 193) and saturates at the cool-down
AgeBy(s, dt) ==
    IF s.fail = 0 THEN [s EXCEPT !.age = 0]
    ELSE [s EXCEPT !.age = Min(SD_RETRY_INTERVAL \div 1000, @ + dt)]

\* the age of lastLogCountUpdate after dt seconds; it is read only while
\* the display is on (line 1320) and saturates at the update interval
LogCountAgeBy(a, dt) == Min(LOG_COUNT_UPDATE_INTERVAL \div 1000, a + dt)

\* the RTC after dt seconds (a failed RTC is never read and is kept at 0)
ClockBy(dt) ==
    IF ~rtcOK
    THEN UNCHANGED clockVars
    ELSE IF lastMeasureUnix > 0
    THEN /\ lastMeasureUnix' = Max(0, lastMeasureUnix - dt)
         /\ rtcUnix' = Max(0, dt - lastMeasureUnix)
    ELSE /\ lastMeasureUnix' = 0
         /\ rtcUnix' = Min(MaxUnix, rtcUnix + dt)

\* ------------------------------------------------------------------------
\* Display and DS18B20
\* ------------------------------------------------------------------------
\* updateDisplay(): resolves a pending conversion whose deadline has passed
\* (ready), valid tells whether the value read is no sentinel code; returns
\* the new ds18b20OK, dsConvPending, displayUpdateCount
UpdateDisplay(on, dsok, pend, cnt, ready, valid) ==
    IF ~on THEN [dsok |-> dsok, pend |-> pend, cnt |-> cnt]
    ELSE IF pend /\ ready
    THEN [dsok |-> (dsok /\ valid), pend |-> FALSE, cnt |-> cnt + 1]
    ELSE [dsok |-> dsok, pend |-> pend, cnt |-> cnt + 1]

\* n calls of updateDisplay() one second apart with the same outcome of the
\* deadline test: the first call resolves the conversion or none does
UpdateDisplayN(on, dsok, pend, cnt, ready, valid, n) ==
    LET u == UpdateDisplay(on, dsok, pend, cnt, ready, valid)
    IN  IF n = 0 THEN [dsok |-> dsok, pend |-> pend, cnt |-> cnt]
        ELSE [u EXCEPT !.cnt = IF on THEN cnt + n ELSE cnt]

\* displayOnFunc(): logCount = countLogEntries()
DisplayOnFunc(s, f) == [s EXCEPT !.lc = CountLogEntries(s, f)]

\* ------------------------------------------------------------------------
\* setup()
\* ------------------------------------------------------------------------
InitFiles == {<<FALSE, 0>>} \cup {<<TRUE, n>> : n \in 0..MaxNl}

\* the globals as initialised at lines 63-126, with a card of one of the
\* given kinds in the slot
InitState(modes) ==
    /\ cardMode \in modes
    /\ sdAvailable = FALSE /\ rtcOK = FALSE /\ ds18b20OK = FALSE
    /\ displayOn = FALSE /\ isMeasuring = FALSE
    /\ displayUpdateCount = 0 /\ logCount = 0 /\ lastMeasureUnix = 0
    /\ logCountAge = 0
    /\ interval = INTERVAL_NO_SD /\ dsConvPending = FALSE
    /\ sdFailCount = 0 /\ isBootPhase = TRUE
    /\ pc = "boot" /\ ret = "loop"
    /\ remaining = 0 /\ elapsed = 0 /\ longSleep = FALSE /\ useRtcWake = FALSE
    /\ retryCount = 0 /\ written = 0 /\ fOpen = FALSE /\ nowUnix = 0
    /\ holdAge = 0 /\ verifyOK = FALSE /\ verCounted = FALSE /\ actualCount = 0
    /\ button = FALSE /\ rtcUnix = 0 /\ sdMounted = FALSE
    /\ \E fl \in (IF cardMode = "absent" THEN {<<FALSE, 0>>} ELSE InitFiles) :
        fileExists = fl[1] /\ fileNl = fl[2]
    /\ fileTail = FALSE
    /\ sdRetryAge = 0 /\ events = 0 /\ faults = 0
    /\ cut = "none" /\ cntBefore = 0 /\ logResult = "none" /\ tracked = 0
    /\ recreated = FALSE
    /\ ProbeIdle

Init == InitState({"faulty", "absent"})

\* runs in which the card either never fails or is not there at all
LiveInit == InitState({"good", "absent"})

\* setup(): displayOff(), initSensors(), then measureAndLog()
Boot ==
    /\ pc = "boot"
    /\ \E rtc \in BOOLEAN, ds \in BootProbe, f \in BootOutcomes,
          k \in 1..BOOT_RETRIES, fc \in CountOutcomes :
        \* the card's fault lasts for the first k attempts, a missing card
        \* stays missing
        LET fs == [i \in 1..BOOT_RETRIES |->
                      IF i <= k \/ cardMode = "absent" THEN f ELSE NoFault]
            r == ReinitSD([St EXCEPT !.fail = 0], TRUE, fs)
            s1 == [r.st EXCEPT !.avail = r.ok,
                               !.ivl = IF r.ok THEN INTERVAL_SD ELSE INTERVAL_NO_SD]
            s2 == IF s1.avail THEN [s1 EXCEPT !.lc = CountLogEntries(s1, fc)] ELSE s1
        IN  /\ rtcOK' = rtc
            /\ ds18b20OK' = ds
            /\ SetSt(s2)
            /\ ds \/ (f = NoFault /\ fc = NoFault) \/ cardMode # "faulty"
            /\ f = NoFault \/ fc = NoFault \/ cardMode # "faulty"
            /\ Charge(~ds \/ f # NoFault \/ fc # NoFault)
    /\ lastMeasureUnix' = 0
    /\ rtcUnix' = 0
    /\ isBootPhase' = FALSE
    /\ displayOn' = FALSE
    /\ pc' = "mal"
    /\ ret' = "loop"
    /\ UNCHANGED <<cardMode, probeVars, isMeasuring, displayUpdateCount, logCountAge,
                   dsConvPending, nowUnix, holdAge, logLocals, verLocals,
                   sleepLocals, envVars>>


\* ------------------------------------------------------------------------
\* measureAndLog()
\* ------------------------------------------------------------------------
\* lines 876-923: isMeasuring, the DS18B20 read (valid: no sentinel code),
\* the timestamp, and the decision to log
Mal ==
    /\ pc = "mal"
    /\ isMeasuring' = TRUE
    /\ \E valid \in ProbeOutcomes :
        /\ valid \/ ds18b20OK
        /\ ds18b20OK' = (ds18b20OK /\ valid)
        /\ Charge(~valid)
    /\ nowUnix' = IF rtcOK THEN rtcUnix ELSE 0
    /\ IF sdAvailable
       THEN /\ pc' = "log_iter"
            /\ cntBefore' = CountLogEntries(St, NoFault)
       ELSE /\ pc' = "mal_end"
            /\ UNCHANGED cntBefore
    /\ retryCount' = 0
    /\ logResult' = "none"
    /\ recreated' = FALSE
    /\ UNCHANGED <<cardMode, probeVars, rtcOK, dispVars, dsConvPending,
                   isBootPhase, ret, holdAge, written, fOpen, storeVars,
                   clockVars, verLocals, sleepLocals, envVars>>

\* logData(): one pass of the retry loop up to the open for writing
\* (lines 548-605)
LogIter ==
    /\ pc = "log_iter"
    /\ \E f \in CardOutcomes :
        LET s == St
            r == IF ~s.avail /\ s.fail < SD_MAX_RETRIES
                 THEN ReinitSD(s, FALSE, <<f>>)
                 ELSE [st |-> s, ok |-> s.avail]
            s1 == r.st
            \* data.csv disappeared: create it with the header, logCount = 0
            c == Recreate(s1, f.wr)
            s2 == IF Exists(s1, f) THEN s1
                  ELSE IF CanOpenW(s1, f) /\ Found(c) THEN c
                  ELSE [s1 EXCEPT !.avail = FALSE]
            \* the iteration reaches the test of the file and finds none
            gone == retryCount < MAX_LOG_RETRIES
                    /\ ~(~s.avail /\ s.fail >= SD_MAX_RETRIES)
                    /\ r.ok /\ ~Exists(s1, f)
        IN  /\ Charge(f # NoFault)
            /\ recreated' = (recreated \/ (gone /\ s2.avail))
            /\ IF retryCount >= MAX_LOG_RETRIES
               THEN \* all retries failed
                    /\ SetSt([s EXCEPT !.ivl = INTERVAL_NO_SD])
                    /\ logResult' = "fail"
                    /\ pc' = "verify"
                    /\ UNCHANGED <<retryCount, fOpen>>
               ELSE IF ~s.avail /\ s.fail >= SD_MAX_RETRIES
               THEN /\ SetSt([s EXCEPT !.ivl = INTERVAL_NO_SD])
                    /\ logResult' = "fail"
                    /\ pc' = "verify"
                    /\ UNCHANGED <<retryCount, fOpen>>
               ELSE IF ~r.ok
               THEN /\ SetSt(s1)
                    /\ retryCount' = retryCount + 1
                    /\ UNCHANGED <<pc, logResult, fOpen>>
               ELSE IF ~s2.avail
               THEN /\ SetSt(s2)
                    /\ retryCount' = retryCount + 1
                    /\ UNCHANGED <<pc, logResult, fOpen>>
               ELSE IF ~CanOpenW(s2, f)
               THEN /\ SetSt([s2 EXCEPT !.avail = FALSE])
                    /\ retryCount' = retryCount + 1
                    /\ UNCHANGED <<pc, logResult, fOpen>>
               ELSE /\ SetSt(s2)
                    /\ fOpen' = TRUE
                    /\ pc' = "log_write"
                    /\ UNCHANGED <<retryCount, logResult>>
    /\ UNCHANGED <<cardMode, probeVars, rtcOK, isMeasuring, isBootPhase, ret, nowUnix, holdAge,
                   written, cntBefore, sensVars, dispVars, clockVars,
                   verLocals, sleepLocals, envVars>>

\* size_t written = f.println(buf);  (line 646)
LogWrite ==
    /\ pc = "log_write"
    /\ \E w \in WriteOutcomes :
        /\ written' = Written(St, w)
        /\ SetSt(Println(St, w))
        /\ Charge(w # RowLen)
    /\ pc' = "log_close"
    /\ UNCHANGED <<cardMode, probeVars, rtcOK, isMeasuring, isBootPhase, ret, nowUnix, holdAge,
                   retryCount, fOpen, cntBefore, logResult, recreated, sensVars,
                   dispVars, clockVars, verLocals, sleepLocals, envVars>>

\* f.flush(); f.close();  (lines 648-651)
LogClose ==
    /\ pc = "log_close"
    /\ fOpen' = FALSE
    /\ pc' = "log_commit"
    /\ UNCHANGED <<cardMode, probeVars, rtcOK, isMeasuring, isBootPhase, ret, nowUnix, holdAge,
                   retryCount, written, cntBefore, logResult, recreated,
                   storeVars,
                   sensVars, dispVars, clockVars, verLocals, sleepLocals,
                   envVars>>
    /\ UNCHANGED faults

\* the commit without the test of the byte count
LogCommitUnchecked ==
    /\ pc = "log_commit"
    /\ logCount' = logCount + 1
    /\ logResult' = "ok"
    /\ pc' = "verify"
    /\ UNCHANGED <<retryCount, sdAvailable>>
    /\ UNCHANGED <<cardMode, probeVars, rtcOK, isMeasuring, isBootPhase, ret, nowUnix, holdAge,
                   written, fOpen, cntBefore, recreated, sdMounted, fileExists, fileNl,
                   fileTail, sdFailCount, interval, sdRetryAge, sensVars,
                   dispVars, clockVars, verLocals, sleepLocals, envVars>>
    /\ UNCHANGED faults

\* the commit that retries after a write of zero bytes without marking the
\* card unavailable
LogCommitStaysAvailable ==
    /\ pc = "log_commit"
    /\ IF written = 0
       THEN /\ retryCount' = retryCount + 1
            /\ pc' = "log_iter"
            /\ UNCHANGED <<logCount, logResult, sdAvailable>>
       ELSE /\ logCount' = logCount + 1
            /\ logResult' = "ok"
            /\ pc' = "verify"
            /\ UNCHANGED <<retryCount, sdAvailable>>
    /\ UNCHANGED <<cardMode, probeVars, rtcOK, isMeasuring, isBootPhase, ret, nowUnix, holdAge,
                   written, fOpen, cntBefore, recreated, sdMounted, fileExists, fileNl,
                   fileTail, sdFailCount, interval, sdRetryAge, sensVars,
                   dispVars, clockVars, verLocals, sleepLocals, envVars>>
    /\ UNCHANGED faults

\* the commit that also retries after a short write
LogCommitRetriesShort ==
    /\ pc = "log_commit"
    /\ IF written < RowLen
       THEN /\ sdAvailable' = FALSE
            /\ retryCount' = retryCount + 1
            /\ pc' = "log_iter"
            /\ UNCHANGED <<logCount, logResult>>
       ELSE /\ logCount' = logCount + 1
            /\ logResult' = "ok"
            /\ pc' = "verify"
            /\ UNCHANGED <<retryCount, sdAvailable>>
    /\ UNCHANGED <<cardMode, probeVars, rtcOK, isMeasuring, isBootPhase, ret, nowUnix, holdAge,
                   written, fOpen, cntBefore, recreated, sdMounted, fileExists, fileNl,
                   fileTail, sdFailCount, interval, sdRetryAge, sensVars,
                   dispVars, clockVars, verLocals, sleepLocals, envVars>>
    /\ UNCHANGED faults

\* if (written == 0) { sdAvailable = false; retryCount++; continue; }
\* logCount++; return;  (lines 653-664)
LogCommit ==
    /\ pc = "log_commit"
    /\ IF written = 0
       THEN /\ sdAvailable' = FALSE
            /\ retryCount' = retryCount + 1
            /\ pc' = "log_iter"
            /\ UNCHANGED <<logCount, logResult>>
       ELSE /\ logCount' = logCount + 1
            /\ logResult' = "ok"
            /\ pc' = "verify"
            /\ UNCHANGED <<retryCount, sdAvailable>>
    /\ UNCHANGED <<cardMode, probeVars, rtcOK, isMeasuring, isBootPhase, ret, nowUnix, holdAge,
                   written, fOpen, cntBefore, recreated, sdMounted, fileExists, fileNl,
                   fileTail, sdFailCount, interval, sdRetryAge, sensVars,
                   dispVars, clockVars, verLocals, sleepLocals, envVars>>
    /\ UNCHANGED faults

\* verifyLastWrite() as called by measureAndLog (line 925)
Verify ==
    /\ pc = "verify"
    /\ \E f \in CardOutcomes :
        LET r == VerifyLastWrite(St, f)
        IN  /\ SetSt(r.st)
            /\ Charge(f # NoFault)
            /\ verifyOK' = r.ok
            /\ verCounted' = r.counted
            /\ actualCount' = r.actual
    /\ tracked' = logCount
    /\ pc' = "mal_end"
    /\ UNCHANGED <<cardMode, probeVars, rtcOK, isMeasuring, isBootPhase, ret, nowUnix, holdAge,
                   logLocals, sensVars, dispVars, clockVars, sleepLocals,
                   envVars>>

\* lastMeasureUnix = nowUnix; isMeasuring = false;  (lines 928-929)
MalEnd ==
    /\ pc = "mal_end"
    /\ LET m == Min(rtcUnix, nowUnix)
       IN  /\ lastMeasureUnix' = nowUnix - m
           /\ rtcUnix' = rtcUnix - m
    /\ isMeasuring' = FALSE
    /\ pc' = ret
    /\ ret' = "loop"
    /\ nowUnix' = 0
    /\ retryCount' = 0
    /\ written' = 0
    /\ cntBefore' = 0
    /\ logResult' = "none"
    /\ recreated' = FALSE
    /\ verifyOK' = FALSE
    /\ verCounted' = FALSE
    /\ actualCount' = 0
    /\ tracked' = 0
    /\ events' = 0
    /\ UNCHANGED <<cardMode, probeVars, rtcOK, isBootPhase, holdAge, fOpen, storeVars,
                   sensVars, dispVars, sleepLocals, button, faults>>


\* ------------------------------------------------------------------------
\* loop()
\* ------------------------------------------------------------------------
\* The passes of loop() during one slice of time.  Lines 1314-1336:
\* displayOff() once DISPLAY_TICKS updates were made, else one update of the
\* display per second and updateLogCount(); then the test whether a
\* measurement is due; lines 1338-1342: enterLightSleep() when the display
\* is off, else delay(100)
Loop ==
    /\ pc = "loop"
    /\ \E ready \in BOOLEAN, valid \in ProbeOutcomes, f \in CountOutcomes :
        LET off == displayOn /\ displayUpdateCount >= DISPLAY_TICKS
            n == IF displayOn /\ ~off
                 THEN Min(SLICE_SEC, DISPLAY_TICKS - displayUpdateCount)
                 ELSE 0
            u == UpdateDisplayN(displayOn, ds18b20OK, dsConvPending,
                                displayUpdateCount, ready, valid, n)
            due == n > 0 /\ logCountAge >= LOG_COUNT_UPDATE_INTERVAL \div 1000
            s == IF due THEN DisplayOnFunc(St, f) ELSE St
            age == IF due \/ n = 0 THEN 0 ELSE logCountAge
        IN  /\ valid \/ (n > 0 /\ dsConvPending /\ ready)
            /\ due \/ f = NoFault \/ cardMode # "faulty"
            /\ Charge(~valid \/ f # NoFault)
            /\ displayOn' = (n > 0)
            /\ displayUpdateCount' = u.cnt
            /\ ds18b20OK' = u.dsok
            /\ dsConvPending' = u.pend
            /\ IF rtcOK /\ MeasureDue(interval, rtcUnix, lastMeasureUnix)
               THEN /\ pc' = "mal" /\ ret' = "loop_tail"
                    /\ SetSt(s)
                    /\ logCountAge' = age
                    /\ UNCHANGED clockVars
               ELSE IF n = 0
               THEN /\ pc' = "pre_sleep"
                    /\ SetSt(s)
                    /\ logCountAge' = age
                    /\ UNCHANGED <<ret, clockVars>>
               ELSE /\ pc' = "loop"
                    /\ SetSt(AgeBy(s, SLICE_SEC))
                    /\ logCountAge' = LogCountAgeBy(age, SLICE_SEC)
                    /\ ClockBy(SLICE_SEC)
                    /\ UNCHANGED ret
    /\ elapsed' = 0
    /\ UNCHANGED <<cardMode, probeVars, rtcOK, isMeasuring, isBootPhase, nowUnix, holdAge,
                   remaining, longSleep, useRtcWake, cut, logLocals,
                   verLocals, envVars>>

\* the end of the pass that calls enterLightSleep() whether the display is
\* on or off
LoopTailSleepsAlways ==
    /\ pc = "loop_tail"
    /\ pc' = "pre_sleep"
    /\ UNCHANGED <<clockVars, storeVars, logCountAge>>
    /\ elapsed' = 0
    /\ UNCHANGED <<cardMode, probeVars, rtcOK, isMeasuring, isBootPhase, ret,
                   nowUnix, holdAge, logLocals, sensVars, displayOn,
                   displayUpdateCount, verLocals, remaining, longSleep,
                   useRtcWake, cut, envVars, faults>>

\* lines 1338-1342 after a measurement made by loop(): enterLightSleep()
\* when the display is off, else delay(100) for the rest of the slice
LoopTail ==
    /\ pc = "loop_tail"
    /\ IF ~displayOn
       THEN /\ pc' = "pre_sleep"
            /\ UNCHANGED <<clockVars, storeVars, logCountAge>>
       ELSE /\ pc' = "loop"
            /\ ClockBy(SLICE_SEC)
            /\ SetSt(AgeBy(St, SLICE_SEC))
            /\ logCountAge' = LogCountAgeBy(logCountAge, SLICE_SEC)
    /\ elapsed' = 0
    /\ UNCHANGED <<cardMode, probeVars, rtcOK, isMeasuring, isBootPhase, ret, nowUnix,
                   holdAge, logLocals, sensVars, displayOn, displayUpdateCount,
                   verLocals, remaining, longSleep, useRtcWake, cut, envVars,
                   faults>>

\* ------------------------------------------------------------------------
\* enterLightSleep()
\* ------------------------------------------------------------------------
\* the part before the slices that leaves a conversion pending
PreSleepKeepPending ==
    /\ pc = "pre_sleep"
    /\ remaining' = SleepRemaining(interval, rtcUnix, lastMeasureUnix, rtcOK)
    /\ elapsed' = IF rtcOK THEN Elapsed(rtcUnix, lastMeasureUnix) ELSE elapsed
    /\ longSleep' = (remaining' > SD_SHUTDOWN_SEC)
    /\ useRtcWake' = (remaining' > RTC_WAKE_SEC)
    /\ SetSt(IF longSleep' THEN EndSD(St) ELSE St)
    /\ cut' = "none"
    /\ pc' = "slice"
    /\ UNCHANGED <<cardMode, probeVars, rtcOK, isMeasuring, isBootPhase, ret, nowUnix, holdAge,
                   logLocals, sensVars, dispVars, clockVars, verLocals, envVars>>
    /\ UNCHANGED faults

\* lines 1103-1173: a pending conversion is resolved or given up, the sleep
\* duration is computed, the card is shut down for a long sleep
PreSleep ==
    /\ pc = "pre_sleep"
    /\ dsConvPending' = FALSE
    /\ remaining' = SleepRemaining(interval, rtcUnix, lastMeasureUnix, rtcOK)
    /\ elapsed' = IF rtcOK THEN Elapsed(rtcUnix, lastMeasureUnix) ELSE elapsed
    /\ longSleep' = (remaining' > SD_SHUTDOWN_SEC)
    /\ useRtcWake' = (remaining' > RTC_WAKE_SEC)
    /\ SetSt(IF longSleep' THEN EndSD(St) ELSE St)
    /\ cut' = "none"
    /\ pc' = "slice"
    /\ UNCHANGED <<cardMode, probeVars, rtcOK, isMeasuring, isBootPhase, ret, nowUnix, holdAge,
                   logLocals, ds18b20OK, dispVars, clockVars, verLocals,
                   envVars>>
    /\ UNCHANGED faults

\* while (remaining > 0) { if (digitalRead(PIN_BUTTON) == LOW) break;
\* wifi_fpm_do_sleep(slice)  (lines 1175-1181)
Slice ==
    /\ pc = "slice"
    /\ IF remaining = 0
       THEN cut' = "full" /\ pc' = "woken"
       ELSE IF button
       THEN cut' = "button" /\ pc' = "woken"
       ELSE pc' = "slice_wake" /\ UNCHANGED cut
    /\ elapsed' = 0
    /\ UNCHANGED <<cardMode, probeVars, rtcOK, isMeasuring, isBootPhase, ret, nowUnix, holdAge,
                   remaining, longSleep, useRtcWake, logLocals,
                   storeVars, sensVars, dispVars, clockVars, verLocals,
                   envVars>>
    /\ UNCHANGED faults

\* lines 1185-1193: the wake lines after the sleep call; without a wake the
\* slice is waited out and taken off remaining
SliceWake ==
    /\ pc = "slice_wake"
    /\ \E line \in BOOLEAN :
        LET slice == IF remaining > SLICE_SEC THEN SLICE_SEC ELSE remaining
            rtcLow == useRtcWake /\ line
        IN  IF ~button /\ ~rtcLow
            THEN /\ remaining' = remaining - slice
                 /\ ClockBy(slice)
                 /\ SetSt(AgeBy(St, slice))
                 /\ pc' = "slice"
                 /\ UNCHANGED cut
            ELSE /\ cut' = IF button THEN "button" ELSE "rtc"
                 /\ pc' = "woken"
                 /\ UNCHANGED <<remaining, clockVars, storeVars>>
    /\ UNCHANGED <<cardMode, probeVars, rtcOK, isMeasuring, isBootPhase, ret, nowUnix, holdAge,
                   elapsed, longSleep, useRtcWake, logLocals, sensVars,
                   dispVars, verLocals, envVars>>
    /\ UNCHANGED faults

\* a button wake whose measurement for the display also sets
\* lastMeasureUnix to the clock reading
WokenStampsMeasure ==
    /\ pc = "woken"
    /\ \E f \in CardOutcomes, ready \in BOOLEAN, valid \in ProbeOutcomes :
        LET s == St
            init == longSleep \/ ~s.avail
            r == IF init THEN ReinitSD(s, FALSE, <<f>>)
                 ELSE [st |-> s, ok |-> TRUE]
            pend == dsConvPending \/ ds18b20OK
            u == UpdateDisplay(TRUE, ds18b20OK, pend, 0, ready, valid)
        IN  /\ valid \/ (button /\ pend /\ ready)
            /\ f = NoFault \/ button \/ init \/ cardMode # "faulty"
            /\ Charge(~valid \/ f # NoFault)
            /\ IF button
               THEN /\ SetSt(DisplayOnFunc(r.st, f))
                    /\ displayOn' = TRUE
                    /\ displayUpdateCount' = u.cnt
                    /\ logCountAge' = 0
                    /\ ds18b20OK' = u.dsok
                    /\ dsConvPending' = u.pend
                    /\ pc' = "hold"
                    /\ UNCHANGED ret
               ELSE /\ SetSt(IF r.ok THEN r.st
                             ELSE [r.st EXCEPT !.avail = FALSE, !.ivl = INTERVAL_NO_SD])
                    /\ pc' = "mal"
                    /\ ret' = "loop"
                    /\ UNCHANGED <<sensVars, dispVars>>
    /\ holdAge' = 0
    /\ remaining' = 0 /\ longSleep' = FALSE /\ useRtcWake' = FALSE
    /\ cut' = "none"
    /\ lastMeasureUnix' = (IF button /\ rtcOK THEN 0 ELSE lastMeasureUnix)
    /\ rtcUnix' = (IF button /\ rtcOK THEN 0 ELSE rtcUnix)
    /\ UNCHANGED <<cardMode, probeVars, rtcOK, isMeasuring, isBootPhase, nowUnix, logLocals,
                   verLocals, elapsed, envVars>>

\* lines 1201-1214 and 1252-1272: the button line is read again; a button
\* wake re-initialises the card, switches the display on and measures for
\* the display, any other wake re-initialises the card and measures
Woken ==
    /\ pc = "woken"
    /\ \E f \in CardOutcomes, ready \in BOOLEAN, valid \in ProbeOutcomes :
        LET s == St
            init == longSleep \/ ~s.avail
            r == IF init THEN ReinitSD(s, FALSE, <<f>>)
                 ELSE [st |-> s, ok |-> TRUE]
            pend == dsConvPending \/ ds18b20OK
            u == UpdateDisplay(TRUE, ds18b20OK, pend, 0, ready, valid)
        IN  /\ valid \/ (button /\ pend /\ ready)
            /\ f = NoFault \/ button \/ init \/ cardMode # "faulty"
            /\ Charge(~valid \/ f # NoFault)
            /\ IF button
               THEN /\ SetSt(DisplayOnFunc(r.st, f))
                    /\ displayOn' = TRUE
                    /\ displayUpdateCount' = u.cnt
                    /\ logCountAge' = 0
                    /\ ds18b20OK' = u.dsok
                    /\ dsConvPending' = u.pend
                    /\ pc' = "hold"
                    /\ UNCHANGED ret
               ELSE /\ SetSt(IF r.ok THEN r.st
                             ELSE [r.st EXCEPT !.avail = FALSE, !.ivl = INTERVAL_NO_SD])
                    /\ pc' = "mal"
                    /\ ret' = "loop"
                    /\ UNCHANGED <<sensVars, dispVars>>
    /\ holdAge' = 0
    /\ remaining' = 0 /\ longSleep' = FALSE /\ useRtcWake' = FALSE
    /\ cut' = "none"
    /\ UNCHANGED <<cardMode, probeVars, rtcOK, isMeasuring, isBootPhase, nowUnix, logLocals,
                   clockVars, verLocals, elapsed, envVars>>

\* lines 1216-1224: while the button is held and LONG_PRESS_MS has not
\* passed, the display is updated once a second; the button stays held for
\* k seconds
Hold ==
    /\ pc = "hold"
    /\ \E k \in HoldSecs, ready \in BOOLEAN, valid \in ProbeOutcomes :
        LET n == IF button THEN Min(k, LONG_PRESS_MS \div 1000) ELSE 0
            u == UpdateDisplayN(displayOn, ds18b20OK, dsConvPending,
                                displayUpdateCount, ready, valid, n)
        IN  /\ valid \/ (n > 0 /\ dsConvPending /\ ready)
            /\ Charge(~valid)
            /\ displayUpdateCount' = u.cnt
            /\ ds18b20OK' = u.dsok
            /\ dsConvPending' = u.pend
            /\ holdAge' = n
            /\ button' = (button /\ n >= LONG_PRESS_MS \div 1000)
            /\ ClockBy(Quant(n * 1000))
            /\ SetSt(AgeBy(St, Quant(n * 1000)))
            /\ logCountAge' = LogCountAgeBy(logCountAge, Quant(n * 1000))
    /\ pc' = "hold_done"
    /\ UNCHANGED <<cardMode, probeVars, rtcOK, isMeasuring, isBootPhase, ret, nowUnix, displayOn,
                   logLocals, verLocals, sleepLocals, events>>

\* lines 1226-1244: a button still held rotates the log file and switches
\* the display on again
HoldDone ==
    /\ pc = "hold_done"
    /\ IF button
       THEN \E f \in CardOutcomes :
            LET s == St
                r == IF ~s.avail THEN ReinitSD(s, FALSE, <<f>>)
                     ELSE [st |-> s, ok |-> TRUE]
                o == RotateLogFile(r.st, f)
                d == DisplayOnFunc(AgeBy(o.st, Quant(ROTATE_MSG_MS)), f)
            IN  /\ SetSt(d)
                /\ Charge(f # NoFault)
                /\ ClockBy(Quant(ROTATE_MSG_MS))
                /\ displayOn' = TRUE
                /\ displayUpdateCount' = 0
                /\ logCountAge' = 0
       ELSE UNCHANGED <<storeVars, clockVars, dispVars, faults>>
    /\ pc' = "debounce"
    /\ holdAge' = 0
    /\ UNCHANGED <<cardMode, probeVars, rtcOK, isMeasuring, isBootPhase, ret, nowUnix, logLocals,
                   sensVars, verLocals, sleepLocals, envVars>>

\* the wait for the release without the limit of DEBOUNCE_MS
DebounceNoTimeout ==
    /\ pc = "debounce"
    /\ ~button
    /\ pc' = "loop"
    /\ UNCHANGED <<clockVars, storeVars, logCountAge>>
    /\ UNCHANGED <<cardMode, probeVars, rtcOK, isMeasuring, isBootPhase, ret, nowUnix, holdAge,
                   logLocals, sensVars, displayOn, displayUpdateCount,
                   verLocals, sleepLocals, envVars>>
    /\ UNCHANGED faults

\* lines 1246-1250: wait for the release, DEBOUNCE_MS at most
Debounce ==
    /\ pc = "debounce"
    /\ IF button
       THEN /\ ClockBy(Quant(DEBOUNCE_MS))
            /\ SetSt(AgeBy(St, Quant(DEBOUNCE_MS)))
            /\ logCountAge' = LogCountAgeBy(logCountAge, Quant(DEBOUNCE_MS))
       ELSE UNCHANGED <<clockVars, storeVars, logCountAge>>
    /\ pc' = "loop"
    /\ UNCHANGED <<cardMode, probeVars, rtcOK, isMeasuring, isBootPhase, ret, nowUnix, holdAge,
                   logLocals, sensVars, displayOn, displayUpdateCount,
                   verLocals, sleepLocals, envVars>>
    /\ UNCHANGED faults

\* ------------------------------------------------------------------------
\* Environment
\* ------------------------------------------------------------------------
\* the button is pressed or released
EnvButton ==
    /\ IF button
       THEN pc \in {"woken", "hold_done", "debounce"}
       ELSE /\ pc = "slice_wake"
            /\ events < MaxEvents
            /\ remaining = SleepRemaining(interval, rtcUnix, lastMeasureUnix, rtcOK)
    /\ button' = ~button
    /\ events' = IF button THEN events ELSE events + 1
    /\ UNCHANGED <<faults, cardMode, probeVars, rtcOK, isMeasuring, isBootPhase, pc, ret, nowUnix,
                   holdAge, storeVars, clockVars, sensVars, dispVars,
                   logLocals, verLocals, sleepLocals>>

\* the RTC is set back during the first slice of a sleep
ClockSetBack ==
    /\ pc = "slice_wake"
    /\ rtcOK
    /\ remaining = SleepRemaining(interval, rtcUnix, lastMeasureUnix, rtcOK)
    /\ events < MaxEvents
    /\ events' = events + 1
    /\ LET d == rtcUnix - lastMeasureUnix - SetBackSlices * SLICE_SEC
       IN  /\ rtcUnix' = Max(0, d)
           /\ lastMeasureUnix' = Min(MaxUnix, Max(0, 0 - d))
    /\ UNCHANGED <<faults, button, cardMode, probeVars, rtcOK, isMeasuring, isBootPhase, pc, ret,
                   nowUnix, holdAge, storeVars, sensVars, dispVars,
                   logLocals, verLocals, sleepLocals>>

Prog ==
    \/ Boot \/ Mal \/ LogIter \/ LogWrite \/ LogClose \/ LogCommit \/ Verify
    \/ MalEnd \/ Loop \/ LoopTail \/ PreSleep \/ Slice \/ SliceWake \/ Woken
    \/ Hold \/ HoldDone \/ Debounce

Next == Prog \/ EnvButton \/ ClockSetBack

Spec == Init /\ [][Next]_vars

\* the processor keeps running the sketch: loop() is called again and again
\* and every wait in it is a delay that ends
LiveSpec == LiveInit /\ [][Next]_vars /\ WF_vars(Prog)

\* ------------------------------------------------------------------------
\* The interval arithmetic on its own
\* ------------------------------------------------------------------------
\* values of interval: the two the sketch assigns (lines 80-82) and the
\* values around the clamps of lines 1136-1139
CalcIntervals == {0, 1, INTERVAL_NO_SD, INTERVAL_SD, MAX_SLEEP_SEC,
                  MAX_SLEEP_SEC + 1}

\* the globals read by lines 1127-1139 and 1326-1335, with any values
CalcInit ==
    /\ cardMode = "good"
    /\ sdAvailable = FALSE /\ ds18b20OK = FALSE
    /\ displayOn = FALSE /\ isMeasuring = FALSE
    /\ displayUpdateCount = 0 /\ logCount = 0 /\ logCountAge = 0
    /\ dsConvPending = FALSE
    /\ sdFailCount = 0 /\ isBootPhase = FALSE
    /\ pc = "calc" /\ ret = "loop"
    /\ remaining = 0 /\ elapsed = 0 /\ longSleep = FALSE /\ useRtcWake = FALSE
    /\ retryCount = 0 /\ written = 0 /\ fOpen = FALSE /\ nowUnix = 0
    /\ holdAge = 0 /\ verifyOK = FALSE /\ verCounted = FALSE /\ actualCount = 0
    /\ button = FALSE /\ sdMounted = FALSE
    /\ fileExists = FALSE /\ fileNl = 0 /\ fileTail = FALSE
    /\ sdRetryAge = 0 /\ events = 0 /\ faults = 0
    /\ cut = "none" /\ cntBefore = 0 /\ logResult = "none" /\ tracked = 0
    /\ recreated = FALSE
    /\ ProbeIdle
    /\ rtcOK \in BOOLEAN
    /\ interval \in CalcIntervals
    /\ rtcUnix \in 0..MaxCalcUnix
    /\ lastMeasureUnix \in 0..MaxCalcLast

\* loop(), lines 1326-1335: elapsed and the test whether a measurement is due
CalcLoop ==
    /\ pc = "calc"
    /\ elapsed' = IF rtcOK THEN Elapsed(rtcUnix, lastMeasureUnix) ELSE 0
    /\ pc' = IF rtcOK /\ MeasureDue(interval, rtcUnix, lastMeasureUnix)
             THEN "calc_due" ELSE "calc_loop"
    /\ UNCHANGED <<cardMode, probeVars, rtcOK, isMeasuring, isBootPhase, ret, nowUnix,
                   holdAge, remaining, longSleep, useRtcWake, cut, logLocals,
                   storeVars, sensVars, dispVars, clockVars, verLocals,
                   envVars, faults>>

\* enterLightSleep(), lines 1127-1141: elapsed, remaining and longSleep
CalcSleep ==
    /\ pc = "calc"
    /\ elapsed' = IF rtcOK THEN Elapsed(rtcUnix, lastMeasureUnix) ELSE 0
    /\ remaining' = SleepRemaining(interval, rtcUnix, lastMeasureUnix, rtcOK)
    /\ longSleep' = (remaining' > SD_SHUTDOWN_SEC)
    /\ useRtcWake' = (remaining' > RTC_WAKE_SEC)
    /\ pc' = "calc_sleep"
    /\ UNCHANGED <<cardMode, probeVars, rtcOK, isMeasuring, isBootPhase, ret, nowUnix,
                   holdAge, cut, logLocals, storeVars, sensVars, dispVars,
                   clockVars, verLocals, envVars, faults>>

CalcNext == CalcLoop \/ CalcSleep

SpecCalc == CalcInit /\ [][CalcNext]_vars

\* ------------------------------------------------------------------------
\* measureAndLog() on a card found in any condition: the card may have been
\* taken out, emptied or filled while the logger slept, so the file, the
\* mount and the counters are drawn independently
\* ------------------------------------------------------------------------
StoreFailCounts == {0, 1, SD_MAX_RETRIES}

StoreInit ==
    /\ cardMode \in {"faulty", "good"}
    /\ rtcOK = FALSE /\ ds18b20OK = FALSE
    /\ displayOn = FALSE /\ isMeasuring = FALSE
    /\ displayUpdateCount = 0 /\ logCountAge = 0
    /\ dsConvPending = FALSE /\ isBootPhase = FALSE
    /\ pc = "mal" /\ ret = "done"
    /\ remaining = 0 /\ elapsed = 0 /\ longSleep = FALSE /\ useRtcWake = FALSE
    /\ retryCount = 0 /\ written = 0 /\ fOpen = FALSE /\ nowUnix = 0
    /\ holdAge = 0 /\ verifyOK = FALSE /\ verCounted = FALSE /\ actualCount = 0
    /\ button = FALSE /\ rtcUnix = 0 /\ lastMeasureUnix = 0
    /\ events = 0 /\ faults = 0
    /\ cut = "none" /\ cntBefore = 0 /\ logResult = "none" /\ tracked = 0
    /\ recreated = FALSE
    /\ ProbeIdle
    /\ sdAvailable \in BOOLEAN
    /\ sdMounted \in BOOLEAN
    /\ \E fl \in InitFiles : fileExists = fl[1] /\ fileNl = fl[2]
    /\ fileTail = FALSE
    /\ logCount \in 0..MaxNl
    /\ interval \in {INTERVAL_NO_SD, INTERVAL_SD}
    /\ sdFailCount \in StoreFailCounts
    /\ sdRetryAge \in (IF sdFailCount = 0 THEN {0}
                       ELSE {0, SD_RETRY_INTERVAL \div 1000})

StoreNext ==
    \/ Mal
    \/ LogIter
    \/ LogWrite
    \/ LogClose
    \/ LogCommit
    \/ Verify
    \/ MalEnd

SpecStore == StoreInit /\ [][StoreNext]_vars

\* ------------------------------------------------------------------------
\* reinitSD() at wake after wake with no card in the slot; here sdFailCount
\* is the 8-bit counter itself and sdRetryAge the seconds since lastSDRetry
\* ------------------------------------------------------------------------
Uint8 == 256

\* sdFailCount++ on uint8_t (lines 122 and 226)
IncFail8(n) == (n + 1) % Uint8

\* lines 193-196: the call is refused
CoolDown(fail, age) == fail > 0 /\ age < SD_RETRY_INTERVAL \div 1000

\* the waits between two calls: a button wake after one slice, a timer wake
\* after INTERVAL_NO_SD
RetryWaits == {SLICE_SEC, INTERVAL_NO_SD}

RetryInit ==
    /\ cardMode = "absent"
    /\ rtcOK = FALSE /\ ds18b20OK = FALSE
    /\ displayOn = FALSE /\ isMeasuring = FALSE
    /\ displayUpdateCount = 0 /\ logCountAge = 0 /\ logCount = 0
    /\ dsConvPending = FALSE /\ isBootPhase = FALSE
    /\ pc = "retry_sleep" /\ ret = "loop"
    /\ remaining = 0 /\ elapsed = 0 /\ longSleep = FALSE /\ useRtcWake = FALSE
    /\ retryCount = 0 /\ written = 0 /\ fOpen = FALSE /\ nowUnix = 0
    /\ holdAge = 0 /\ verifyOK = FALSE /\ verCounted = FALSE /\ actualCount = 0
    /\ button = FALSE /\ rtcUnix = 0 /\ lastMeasureUnix = 0
    /\ events = 0 /\ faults = 0
    /\ cut = "none" /\ cntBefore = 0 /\ logResult = "none" /\ tracked = 0
    /\ recreated = FALSE
    /\ ProbeIdle
    /\ sdMounted = FALSE /\ fileExists = FALSE /\ fileNl = 0 /\ fileTail = FALSE
    /\ interval = INTERVAL_NO_SD
    \* the first attempt after setup() has just failed
    /\ sdAvailable = FALSE /\ sdFailCount = 1 /\ sdRetryAge = 0

\* the sleep up to the next wake
RetrySleep ==
    /\ pc = "retry_sleep"
    /\ \E w \in RetryWaits :
        sdRetryAge' = Min(sdRetryAge + w, SD_RETRY_INTERVAL \div 1000)
    /\ pc' = "retry_wake"
    /\ UNCHANGED <<cardMode, probeVars, rtcOK, isMeasuring, isBootPhase, ret, nowUnix,
                   holdAge, logLocals, sensVars, dispVars, clockVars,
                   verLocals, sleepLocals, envVars, faults, sdMounted,
                   fileExists, fileNl, fileTail, sdAvailable, sdFailCount,
                   interval, logCount>>

\* lines 1207-1210 and 1255-1261 with lines 192-229: reinitSD() is called
\* because sdAvailable is false, and SD.begin fails
RetryWake ==
    /\ pc = "retry_wake"
    /\ IF CoolDown(sdFailCount, sdRetryAge)
       THEN UNCHANGED <<sdFailCount, sdRetryAge>>
       ELSE /\ sdFailCount' = IncFail8(sdFailCount)
            /\ sdRetryAge' = 0
    /\ pc' = "retry_sleep"
    /\ UNCHANGED <<cardMode, probeVars, rtcOK, isMeasuring, isBootPhase, ret, nowUnix,
                   holdAge, logLocals, sensVars, dispVars, clockVars,
                   verLocals, sleepLocals, envVars, faults, sdMounted,
                   fileExists, fileNl, fileTail, sdAvailable,
                   interval, logCount>>

RetryNext == RetrySleep \/ RetryWake

SpecRetry == RetryInit /\ [][RetryNext]_vars

\* ------------------------------------------------------------------------
\* The sensors: what measureAndLog(), measureDisplay(), updateDisplay() and
\* the start of enterLightSleep() do with shtOK, sht_retry_counter,
\* ds18b20OK, dsConvPending and data.waterTempValid. shtProbed tells whether
\* the last acquisition called sht31.begin, sentinel whether the step read a
\* sentinel code from the DS18B20.
\* ------------------------------------------------------------------------
SHT_RETRY_INTERVAL == 10
MaxCycles == 12

\* initSensors(), lines 1045-1048: both sensors are probed
SensInit ==
    /\ cardMode = "good" /\ sdAvailable = FALSE /\ rtcOK = FALSE
    /\ displayOn = FALSE /\ isMeasuring = FALSE /\ displayUpdateCount = 0
    /\ logCount = 0 /\ lastMeasureUnix = 0 /\ interval = INTERVAL_NO_SD
    /\ dsConvPending = FALSE /\ sdFailCount = 0 /\ isBootPhase = FALSE
    /\ logCountAge = 0 /\ ret = "loop" /\ remaining = 0 /\ elapsed = 0
    /\ longSleep = FALSE /\ useRtcWake = FALSE /\ retryCount = 0
    /\ written = 0 /\ fOpen = FALSE /\ nowUnix = 0 /\ holdAge = 0
    /\ verifyOK = FALSE /\ verCounted = FALSE /\ actualCount = 0
    /\ button = FALSE /\ rtcUnix = 0 /\ sdMounted = FALSE
    /\ fileExists = FALSE /\ fileNl = 0 /\ fileTail = FALSE /\ sdRetryAge = 0
    /\ events = 0 /\ faults = 0 /\ cut = "none" /\ cntBefore = 0
    /\ logResult = "none" /\ tracked = 0 /\ recreated = FALSE
    /\ sht_retry_counter = 0 /\ waterTempValid = FALSE /\ shtProbed = FALSE
    /\ sentinel = FALSE /\ millisNow = 0 /\ dsConvReadyAt = 0 /\ convMs = 0
    /\ convAge = 0 /\ convWaited = 0 /\ dsRead = "none"
    /\ shtOK \in BOOLEAN /\ ds18b20OK \in BOOLEAN
    /\ RowIdle /\ HistIdle /\ NapIdle /\ DrvIdle
    /\ pc = "sens_boot"

\* measureAndLog(), lines 875-917, called by setup(), by loop() when the
\* interval has elapsed and after a timer wake: found is the answer of
\* sht31.begin, nan tells a reading of NaN, valid a DS18B20 value that is no
\* sentinel code
SensMeasureAndLog ==
    /\ pc \in {"sens_boot", "sens_loop", "sens_sleep"}
    /\ sht_retry_counter < MaxCycles
    /\ sht_retry_counter' = sht_retry_counter + 1
    /\ \E found \in BOOLEAN, nan \in BOOLEAN, valid \in BOOLEAN :
        LET probe == ~shtOK /\ sht_retry_counter' % SHT_RETRY_INTERVAL = 0
            ok1 == IF probe THEN found ELSE shtOK
        IN  /\ probe \/ found
            /\ ok1 \/ ~nan
            /\ ds18b20OK \/ valid
            /\ shtProbed' = probe
            /\ shtOK' = (ok1 /\ ~nan)
            /\ ds18b20OK' = (ds18b20OK /\ valid)
            /\ waterTempValid' = (ds18b20OK /\ valid)
            /\ sentinel' = (ds18b20OK /\ ~valid)
    /\ pc' = "sens_loop"
    /\ UNCHANGED <<cardMode, rtcOK, isMeasuring, isBootPhase, ret, nowUnix,
                   holdAge, logLocals, clockVars, verLocals, sleepLocals,
                   envVars, faults, storeVars, logCountAge, convVars, rowVars,
                   histVars, napVars, drvVars,
                   dsConvPending, displayOn, displayUpdateCount>>

\* loop(), lines 1314-1316: displayOff() after DISPLAY_TICKS updates
SensDisplayOff ==
    /\ pc = "sens_loop"
    /\ displayOn /\ displayUpdateCount >= DISPLAY_TICKS
    /\ displayOn' = FALSE
    /\ sentinel' = FALSE
    /\ UNCHANGED <<cardMode, rtcOK, isMeasuring, isBootPhase, ret, nowUnix,
                   holdAge, logLocals, clockVars, verLocals, sleepLocals,
                   envVars, faults, storeVars, logCountAge, convVars, rowVars,
                   histVars, napVars, drvVars,
                   pc, shtOK, sht_retry_counter, shtProbed, waterTempValid,
                   ds18b20OK, dsConvPending, displayUpdateCount>>

\* updateDisplay(), lines 771-787, called by loop() and by the hold loop
\* once a second
SensUpdateDisplay ==
    /\ pc = "sens_loop"
    /\ displayOn /\ displayUpdateCount < DISPLAY_TICKS
    /\ \E ready \in BOOLEAN, valid \in BOOLEAN :
        LET u == UpdateDisplay(TRUE, ds18b20OK, dsConvPending,
                               displayUpdateCount, ready, valid)
            read == dsConvPending /\ ready
        IN  /\ read \/ (valid /\ ~ready)
            /\ ds18b20OK' = u.dsok
            /\ dsConvPending' = u.pend
            /\ displayUpdateCount' = u.cnt
            /\ waterTempValid' = (waterTempValid \/ (read /\ valid))
            /\ sentinel' = (read /\ ~valid)
    /\ UNCHANGED <<cardMode, rtcOK, isMeasuring, isBootPhase, ret, nowUnix,
                   holdAge, logLocals, clockVars, verLocals, sleepLocals,
                   envVars, faults, storeVars, logCountAge, convVars, rowVars,
                   histVars, napVars, drvVars,
                   pc, shtOK, sht_retry_counter, shtProbed, displayOn>>

\* enterLightSleep(), lines 1103-1119: a pending conversion is read when its
\* deadline passes within 2 s (ready) and given up otherwise
SensPreSleep ==
    /\ pc = "sens_loop"
    /\ ~displayOn
    /\ \E ready \in BOOLEAN, valid \in BOOLEAN :
        LET read == dsConvPending /\ ready
        IN  /\ read \/ (valid /\ ~ready)
            /\ waterTempValid' = (waterTempValid \/ (read /\ valid))
            /\ sentinel' = (read /\ ~valid)
    /\ dsConvPending' = FALSE
    /\ pc' = "sens_sleep"
    /\ UNCHANGED <<cardMode, rtcOK, isMeasuring, isBootPhase, ret, nowUnix,
                   holdAge, logLocals, clockVars, verLocals, sleepLocals,
                   envVars, faults, storeVars, logCountAge, convVars, rowVars,
                   histVars, napVars, drvVars,
                   shtOK, sht_retry_counter, shtProbed, ds18b20OK, displayOn,
                   displayUpdateCount>>

\* the button wake, lines 1204-1214: displayOnFunc(), measureDisplay()
\* (lines 932-972) and updateDisplay()
SensMeasureDisplay ==
    /\ pc = "sens_sleep"
    /\ displayOn' = TRUE
    /\ \E found \in BOOLEAN, nan \in BOOLEAN, ready \in BOOLEAN,
          valid \in BOOLEAN :
        LET probe == ~shtOK
            ok1 == IF probe THEN found ELSE shtOK
            pend == dsConvPending \/ ds18b20OK
            u == UpdateDisplay(TRUE, ds18b20OK, pend, 0, ready, valid)
            read == pend /\ ready
        IN  /\ probe \/ found
            /\ ok1 \/ ~nan
            /\ read \/ (valid /\ ~ready)
            /\ shtProbed' = probe
            /\ shtOK' = (ok1 /\ ~nan)
            /\ ds18b20OK' = u.dsok
            /\ dsConvPending' = u.pend
            /\ displayUpdateCount' = u.cnt
            /\ waterTempValid' = (read /\ valid)
            /\ sentinel' = (read /\ ~valid)
    /\ pc' = "sens_loop"
    /\ UNCHANGED <<cardMode, rtcOK, isMeasuring, isBootPhase, ret, nowUnix,
                   holdAge, logLocals, clockVars, verLocals, sleepLocals,
                   envVars, faults, storeVars, logCountAge, convVars, rowVars,
                   histVars, napVars, drvVars,
                   sht_retry_counter>>

SensNext ==
    \/ SensMeasureAndLog
    \/ SensDisplayOff
    \/ SensUpdateDisplay
    \/ SensPreSleep
    \/ SensMeasureDisplay

SpecSens == SensInit /\ [][SensNext]_vars

\* ------------------------------------------------------------------------
\* The deadline of the asynchronous conversion. millis() is a counter of
\* MillisBits bits (32 on the ESP8266, fewer here: the display period of
\* 20 s stays well below half the range, as it does on the device);
\* convAge is the time since the conversion was started.
\* ------------------------------------------------------------------------
MillisBits == 16
MillisWrap == 2 ^ MillisBits
DISPLAY_UPDATE_INTERVAL == 1000
ForceWaitMs == 2000
ForceStepMs == 10

\* convMs for the resolutions of 9, 10, 11 and 12 bits (lines 958-962)
ConvDelays == {94, 188, 375, 750}

\* dsConvReadyAt = millis() + convMs  (line 965)
ReadyAt(now, ms) == (now + ms) % MillisWrap

\* millis() >= dsConvReadyAt  (line 775)
ReadyPlain(now, at) == now >= at

\* (int32_t)(millis() - dsConvReadyAt) >= 0  (line 1107)
ReadySigned(now, at) == ((now - at) % MillisWrap) < MillisWrap \div 2

\* the values of millis() at the button wake: far from the wrap and within
\* a second before it
ConvStarts == {0, 1000, MillisWrap - 1000, MillisWrap - 750,
               MillisWrap - 500, MillisWrap - 94, MillisWrap - 1}

ConvInit ==
    /\ cardMode = "good" /\ sdAvailable = FALSE /\ rtcOK = FALSE
    /\ displayOn = FALSE /\ isMeasuring = FALSE /\ displayUpdateCount = 0
    /\ logCount = 0 /\ lastMeasureUnix = 0 /\ interval = INTERVAL_NO_SD
    /\ dsConvPending = FALSE /\ sdFailCount = 0 /\ isBootPhase = FALSE
    /\ logCountAge = 0 /\ ret = "loop" /\ remaining = 0 /\ elapsed = 0
    /\ longSleep = FALSE /\ useRtcWake = FALSE /\ retryCount = 0
    /\ written = 0 /\ fOpen = FALSE /\ nowUnix = 0 /\ holdAge = 0
    /\ verifyOK = FALSE /\ verCounted = FALSE /\ actualCount = 0
    /\ button = FALSE /\ rtcUnix = 0 /\ sdMounted = FALSE
    /\ fileExists = FALSE /\ fileNl = 0 /\ fileTail = FALSE /\ sdRetryAge = 0
    /\ events = 0 /\ faults = 0 /\ cut = "none" /\ cntBefore = 0
    /\ logResult = "none" /\ tracked = 0 /\ recreated = FALSE /\ shtOK = FALSE
    /\ sht_retry_counter = 0 /\ waterTempValid = FALSE /\ shtProbed = FALSE
    /\ sentinel = FALSE /\ dsConvReadyAt = 0 /\ convMs = 0 /\ convAge = 0
    /\ convWaited = 0 /\ dsRead = "none"
    /\ ds18b20OK = TRUE
    /\ millisNow \in ConvStarts
    /\ RowIdle /\ HistIdle /\ NapIdle /\ DrvIdle
    /\ pc = "conv_idle"

\* displayOnFunc() and measureDisplay(), lines 956-968: the conversion is
\* requested and its deadline stored
ConvMeasureDisplay ==
    /\ pc = "conv_idle"
    /\ \E ms \in ConvDelays :
        /\ convMs' = ms
        /\ dsConvReadyAt' = ReadyAt(millisNow, ms)
    /\ dsConvPending' = TRUE
    /\ convAge' = 0
    /\ displayOn' = TRUE
    /\ displayUpdateCount' = 0
    /\ pc' = "conv_poll"
    /\ UNCHANGED <<cardMode, rtcOK, isMeasuring, isBootPhase, ret, nowUnix,
                   holdAge, logLocals, clockVars, verLocals, sleepLocals,
                   envVars, faults, storeVars, logCountAge, shtVars, rowVars,
                   histVars, napVars, drvVars,
                   ds18b20OK, millisNow, convWaited, dsRead>>

\* updateDisplay(), lines 775-787: called at once after measureDisplay()
\* (line 1214) and then every DISPLAY_UPDATE_INTERVAL
ConvUpdateDisplay ==
    /\ pc = "conv_poll"
    /\ displayOn /\ displayUpdateCount < DISPLAY_TICKS
    /\ LET d == IF displayUpdateCount = 0 THEN 0 ELSE DISPLAY_UPDATE_INTERVAL
           now == (millisNow + d) % MillisWrap
       IN  /\ millisNow' = now
           /\ convAge' = convAge + d
           /\ IF dsConvPending /\ ReadyPlain(now, dsConvReadyAt)
              THEN /\ dsRead' = "display"
                   /\ dsConvPending' = FALSE
                   /\ pc' = "conv_done"
              ELSE UNCHANGED <<dsRead, dsConvPending, pc>>
    /\ displayUpdateCount' = displayUpdateCount + 1
    /\ UNCHANGED <<cardMode, rtcOK, isMeasuring, isBootPhase, ret, nowUnix,
                   holdAge, logLocals, clockVars, verLocals, sleepLocals,
                   envVars, faults, storeVars, logCountAge, shtVars, rowVars,
                   histVars, napVars, drvVars,
                   ds18b20OK, displayOn, dsConvReadyAt, convMs,
                   convWaited>>

\* loop(), lines 1314-1316 and 1338-1339: the display goes off and
\* enterLightSleep() is called
ConvDisplayOff ==
    /\ pc = "conv_poll"
    /\ displayOn /\ displayUpdateCount >= DISPLAY_TICKS
    /\ displayOn' = FALSE
    /\ pc' = "conv_presleep"
    /\ UNCHANGED <<cardMode, rtcOK, isMeasuring, isBootPhase, ret, nowUnix,
                   holdAge, logLocals, clockVars, verLocals, sleepLocals,
                   envVars, faults, storeVars, logCountAge, shtVars, rowVars,
                   histVars, napVars, drvVars,
                   ds18b20OK, displayUpdateCount, dsConvPending,
                   convVars>>

\* enterLightSleep(), lines 1103-1119: the deadline is tested every
\* ForceStepMs for ForceWaitMs at most, then the conversion is given up
ConvPreSleep ==
    /\ pc = "conv_presleep"
    /\ dsConvPending
    /\ LET ks == {k \in 0..(ForceWaitMs \div ForceStepMs - 1) :
                    ReadySigned((millisNow + k * ForceStepMs) % MillisWrap,
                                dsConvReadyAt)}
           w == IF ks = {} THEN ForceWaitMs
                ELSE ForceStepMs * (CHOOSE k \in ks : \A j \in ks : k <= j)
       IN  /\ millisNow' = (millisNow + w) % MillisWrap
           /\ convAge' = convAge + w
           /\ convWaited' = w
           /\ dsRead' = IF ks = {} THEN dsRead ELSE "sleep"
    /\ dsConvPending' = FALSE
    /\ pc' = "conv_done"
    /\ UNCHANGED <<cardMode, rtcOK, isMeasuring, isBootPhase, ret, nowUnix,
                   holdAge, logLocals, clockVars, verLocals, sleepLocals,
                   envVars, faults, storeVars, logCountAge, shtVars, rowVars,
                   histVars, napVars, drvVars,
                   ds18b20OK, displayOn, displayUpdateCount,
                   dsConvReadyAt, convMs>>

ConvNext ==
    \/ ConvMeasureDisplay
    \/ ConvUpdateDisplay
    \/ ConvDisplayOff
    \/ ConvPreSleep

SpecConv == ConvInit /\ [][ConvNext]_vars

\* ------------------------------------------------------------------------
\* The Reading and the row logData() formats from it, on a card that
\* answers every call. A value held in data is known by the cycle that
\* stored it: n > 0 for the n-th call of measureAndLog(), -1 for a value
\* acquired for the display, 0 for none. A text field of the row is the
\* cycle of the value printed in it, 0 for the empty text.
\* ------------------------------------------------------------------------

\* a dew point field that prints whatever data.td holds
FormatRowHeldDew(valid, wvalid, t, h, td, w, ts, utc) ==
    [tsUtc |-> utc, tsLocal |-> ts,
     t |-> IF valid THEN t ELSE 0,
     h |-> IF valid THEN h ELSE 0,
     td |-> td,
     w |-> IF wvalid THEN w ELSE 0,
     sht_ok |-> IF valid THEN 1 ELSE 0,
     water_ok |-> IF wvalid THEN 1 ELSE 0]

\* logData(), lines 607-644: ts_utc from rtc.now(), ts_local from data.ts,
\* tempStr, humStr and dewStr filled when data.shtValid, waterStr when
\* data.waterTempValid, and the two flags
FormatRow(valid, wvalid, t, h, td, w, ts, utc) ==
    [tsUtc |-> utc, tsLocal |-> ts,
     t |-> IF valid THEN t ELSE 0,
     h |-> IF valid THEN h ELSE 0,
     td |-> IF valid THEN td ELSE 0,
     w |-> IF wvalid THEN w ELSE 0,
     sht_ok |-> IF valid THEN 1 ELSE 0,
     water_ok |-> IF wvalid THEN 1 ELSE 0]

\* a Reading that keeps the time stamp it has when the clock is out
ReadingStampHeld(ok, cyc) ==
    IF ok THEN [kind |-> "clock", cyc |-> cyc] ELSE dataTs

\* measureAndLog(), lines 919-920: data.ts is the local time of the clock
\* reading, or DateTime(2023, 1, 1, 0, 0, 0) when rtcOK is false
ReadingStamp(ok, cyc) ==
    IF ok THEN [kind |-> "clock", cyc |-> cyc]
    ELSE [kind |-> "placeholder", cyc |-> cyc]

\* setup() is about to take the first measurement: the clock, the card and
\* the sensors were found or not; a card that was found holds /data.csv
\* with its header
RowInit ==
    /\ cardMode = "good" /\ rtcOK \in BOOLEAN /\ sdAvailable \in BOOLEAN
    /\ shtOK \in BOOLEAN /\ ds18b20OK \in BOOLEAN
    /\ sdMounted = sdAvailable /\ fileExists = sdAvailable
    /\ fileNl = (IF sdAvailable THEN 1 ELSE 0) /\ fileTail = FALSE
    /\ interval = (IF sdAvailable THEN INTERVAL_SD ELSE INTERVAL_NO_SD)
    /\ displayOn = FALSE /\ isMeasuring = FALSE /\ displayUpdateCount = 0
    /\ logCount = 0 /\ lastMeasureUnix = 0
    /\ dsConvPending = FALSE /\ sdFailCount = 0 /\ isBootPhase = FALSE
    /\ logCountAge = 0 /\ ret = "loop" /\ remaining = 0 /\ elapsed = 0
    /\ longSleep = FALSE /\ useRtcWake = FALSE /\ retryCount = 0
    /\ written = 0 /\ fOpen = FALSE /\ nowUnix = 0 /\ holdAge = 0
    /\ verifyOK = FALSE /\ verCounted = FALSE /\ actualCount = 0
    /\ button = FALSE /\ rtcUnix = 0 /\ sdRetryAge = 0
    /\ events = 0 /\ faults = 0 /\ cut = "none" /\ cntBefore = 0
    /\ logResult = "none" /\ tracked = 0 /\ recreated = FALSE
    /\ sht_retry_counter = 0 /\ waterTempValid = FALSE /\ shtProbed = FALSE
    /\ sentinel = FALSE /\ millisNow = 0 /\ dsConvReadyAt = 0 /\ convMs = 0
    /\ convAge = 0 /\ convWaited = 0 /\ dsRead = "none"
    /\ RowIdle /\ HistIdle /\ NapIdle /\ DrvIdle
    /\ pc = "row_boot"

\* measureAndLog(), lines 875-930: found is the answer of sht31.begin,
\* nanT and nanH tell a reading of NaN, valid a DS18B20 value that is no
\* sentinel code; the clock has moved on by one unit since the previous
\* cycle. logData() appends the row and counts it, verifyLastWrite() finds
\* the count it expects.
RowMeasureAndLog ==
    /\ pc \in {"row_boot", "row_run"}
    \* from setup(), after a timer wake (the display is off then), or from
    \* loop(), which looks at the interval only when rtcOK
    /\ pc = "row_boot" \/ ~displayOn \/ rtcOK
    /\ sht_retry_counter < MaxCycles
    /\ sht_retry_counter' = sht_retry_counter + 1
    /\ rtcUnix' = rtcUnix + 1
    /\ \E found \in BOOLEAN, nanT \in BOOLEAN, nanH \in BOOLEAN,
          valid \in BOOLEAN :
        LET cyc == sht_retry_counter'
            probe == ~shtOK /\ cyc % SHT_RETRY_INTERVAL = 0
            ok1 == IF probe THEN found ELSE shtOK
            sv == ok1 /\ ~nanT /\ ~nanH
            wv == ds18b20OK /\ valid
            t1 == IF sv THEN cyc ELSE dataT
            h1 == IF sv THEN cyc ELSE dataH
            td1 == IF sv THEN cyc ELSE dataTd
            w1 == IF wv THEN cyc ELSE dataWater
            ts == ReadingStamp(rtcOK, cyc)
        IN  /\ probe \/ found
            /\ ok1 \/ (~nanT /\ ~nanH)
            /\ ds18b20OK \/ valid
            /\ shtProbed' = probe
            /\ shtOK' = sv
            /\ shtValid' = sv
            /\ dataT' = t1 /\ dataH' = h1 /\ dataTd' = td1
            /\ ds18b20OK' = wv
            /\ waterTempValid' = wv
            /\ dataWater' = w1
            /\ sentinel' = (ds18b20OK /\ ~valid)
            /\ nowUnix' = (IF rtcOK THEN rtcUnix' ELSE 0)
            /\ dataTs' = ts
            /\ IF sdAvailable
               THEN /\ row' = FormatRow(sv, wv, t1, h1, td1, w1, ts,
                                        [kind |-> "clock", cyc |-> cyc])
                    /\ fileNl' = fileNl + 1
                    /\ logCount' = logCount + 1
               ELSE UNCHANGED <<row, fileNl, logCount>>
    /\ lastMeasureUnix' = nowUnix'
    /\ pc' = "row_run"
    /\ UNCHANGED <<cardMode, rtcOK, isMeasuring, isBootPhase, ret, holdAge,
                   logLocals, verLocals, sleepLocals, envVars, faults,
                   sdMounted, fileExists, fileTail, sdAvailable, sdFailCount,
                   interval, sdRetryAge, logCountAge, convVars, histVars,
                   napVars, drvVars,
                   dsConvPending, displayOn, displayUpdateCount>>

\* the button wake, lines 1204-1214: displayOnFunc(), measureDisplay()
\* (lines 932-972) and the first updateDisplay(), which reads the
\* conversion when its deadline has passed (ready)
RowMeasureDisplay ==
    /\ pc = "row_run" /\ ~displayOn
    /\ displayOn' = TRUE
    /\ \E found \in BOOLEAN, nanT \in BOOLEAN, nanH \in BOOLEAN,
          ready \in BOOLEAN, valid \in BOOLEAN :
        LET probe == ~shtOK
            ok1 == IF probe THEN found ELSE shtOK
            sv == ok1 /\ ~nanT /\ ~nanH
            pend == ds18b20OK
            u == UpdateDisplay(TRUE, ds18b20OK, pend, 0, ready, valid)
            read == pend /\ ready
        IN  /\ probe \/ found
            /\ ok1 \/ (~nanT /\ ~nanH)
            /\ read \/ (valid /\ ~ready)
            /\ shtProbed' = probe
            /\ shtOK' = sv
            /\ shtValid' = sv
            /\ dataT' = (IF sv THEN -1 ELSE dataT)
            /\ dataH' = (IF sv THEN -1 ELSE dataH)
            /\ dataTd' = (IF sv THEN -1 ELSE dataTd)
            /\ ds18b20OK' = u.dsok
            /\ dsConvPending' = u.pend
            /\ displayUpdateCount' = u.cnt
            /\ waterTempValid' = (read /\ valid)
            /\ dataWater' = (IF read /\ valid THEN -1 ELSE dataWater)
            /\ sentinel' = (read /\ ~valid)
    /\ dataTs' = [kind |-> "clock", cyc |-> -1]
    /\ UNCHANGED <<cardMode, rtcOK, isMeasuring, isBootPhase, ret, nowUnix,
                   holdAge, logLocals, clockVars, verLocals, sleepLocals,
                   envVars, faults, storeVars, logCountAge, convVars,
                   histVars, napVars, drvVars, pc, sht_retry_counter, row>>

\* updateDisplay(), lines 771-787 and 868, once a second while the display
\* is on
RowUpdateDisplay ==
    /\ pc = "row_run"
    /\ displayOn /\ displayUpdateCount < DISPLAY_TICKS
    /\ \E ready \in BOOLEAN, valid \in BOOLEAN :
        LET u == UpdateDisplay(TRUE, ds18b20OK, dsConvPending,
                               displayUpdateCount, ready, valid)
            read == dsConvPending /\ ready
        IN  /\ read \/ (valid /\ ~ready)
            /\ ds18b20OK' = u.dsok
            /\ dsConvPending' = u.pend
            /\ displayUpdateCount' = u.cnt
            /\ waterTempValid' = (waterTempValid \/ (read /\ valid))
            /\ dataWater' = (IF read /\ valid THEN -1 ELSE dataWater)
            /\ sentinel' = (read /\ ~valid)
    /\ UNCHANGED <<cardMode, rtcOK, isMeasuring, isBootPhase, ret, nowUnix,
                   holdAge, logLocals, clockVars, verLocals, sleepLocals,
                   envVars, faults, storeVars, logCountAge, convVars,
                   histVars, napVars, drvVars, pc, shtOK, sht_retry_counter,
                   shtProbed,
                   displayOn, shtValid, dataT, dataH, dataTd, dataTs, row>>

\* loop(), lines 1314-1316: displayOff() after DISPLAY_TICKS updates
RowDisplayOff ==
    /\ pc = "row_run"
    /\ displayOn /\ displayUpdateCount >= DISPLAY_TICKS
    /\ displayOn' = FALSE
    /\ UNCHANGED <<cardMode, rtcOK, isMeasuring, isBootPhase, ret, nowUnix,
                   holdAge, logLocals, clockVars, verLocals, sleepLocals,
                   envVars, faults, storeVars, logCountAge, probeVars,
                   pc, ds18b20OK, dsConvPending, displayUpdateCount>>

RowNext ==
    \/ RowMeasureAndLog
    \/ RowMeasureDisplay
    \/ RowUpdateDisplay
    \/ RowDisplayOff

SpecRow == RowInit /\ [][RowNext]_vars


\* ------------------------------------------------------------------------
\* readLastMeasurements() on a file of any content. A line of /data.csv is
\* the sequence of its comma-separated fields, <<>> for an empty line; a
\* field is the number its text stands for, 0 for the empty text and -1 for
\* a text that is no number (the time stamps, the names of the header).
\* ------------------------------------------------------------------------
\* lines after the first one in the files drawn
MaxHistLines == 4

\* atof: 0 for a text that is no number
Atof(x) == IF x < 0 THEN 0 ELSE x

\* CSV_HEADER, lines 90-91
HeaderLine == <<-1, -1, -1, -1, -1, -1, -1, -1, -1>>

\* a row as logData writes it (line 642): ts_utc, epoch_ms, timestamp_local,
\* temperature, humidity, dew point, water temperature, sht_ok, water_ok
DataLine(t, h, w) ==
    <<-1, 1, -1, t, h, t, w, IF t = 0 THEN 0 ELSE 1, IF w = 0 THEN 0 ELSE 1>>

\* the lines a file is drawn from: rows with and without the SHT3x and the
\* DS18B20 values, an empty line, and a row cut off after its temperature
HistLines ==
    {DataLine(th[1], th[2], w) :
        th \in {<<0, 0>>, <<1, 5>>, <<2, 5>>, <<3, 5>>}, w \in {0, 7}}
    \cup {<<>>, <<-1, 1, -1, 2>>}

RECURSIVE HistFiles(_)
HistFiles(n) ==
    IF n = 0 THEN {<<>>}
    ELSE LET shorter == HistFiles(n - 1)
         IN  shorter \cup {Append(f, l) : f \in {g \in shorter : Len(g) = n - 1},
                                          l \in HistLines}

\* lines 449-475: the field with index idx (from 0) of a line as the scan
\* stores it: a field that ends with a comma is converted unless it is
\* empty; of the fields that end the line only the one with index 6 is
LineField(line, idx) ==
    IF idx + 1 < Len(line) \/ (idx + 1 = Len(line) /\ idx = 6)
    THEN Atof(line[idx + 1])
    ELSE 0

\* lines 408-436: the forward scan over the lines after the first one;
\* buf are lines[0..2], n is lineCount; an empty line is passed over
RECURSIVE RollLines(_, _, _, _)
RollLines(ls, i, buf, n) ==
    IF i > Len(ls) THEN [buf |-> buf, n |-> n]
    ELSE IF ls[i] = <<>> THEN RollLines(ls, i + 1, buf, n)
    ELSE IF n < 3
    THEN RollLines(ls, i + 1, [buf EXCEPT ![n + 1] = ls[i]], n + 1)
    ELSE RollLines(ls, i + 1, <<buf[2], buf[3], ls[i]>>, n + 1)

\* readLastMeasurements(), lines 382-480: file are the lines of /data.csv,
\* open tells whether SD.open succeeds
ReadLastMeasurements(avail, open, file) ==
    IF ~avail \/ ~open THEN NoHist
    ELSE LET r == RollLines(Tail(file), 1, <<<<>>, <<>>, <<>>>>, 0)
             count == Min(r.n, 3)
             At(j, idx) == IF j <= count
                           THEN LineField(r.buf[count + 1 - j], idx)
                           ELSE 0
         IN  [valid |-> (count > 0),
              t |-> [j \in 1..3 |-> At(j, 3)],
              h |-> [j \in 1..3 |-> At(j, 4)],
              tWater |-> [j \in 1..3 |-> At(j, 6)]]

\* displayOnFunc() is about to read the history: the card is available or
\* not, and /data.csv begins with the header, or with a data row when
\* reinitSD accepted an empty file
HistInit ==
    /\ cardMode = "good" /\ sdAvailable \in BOOLEAN /\ rtcOK = FALSE
    /\ ds18b20OK = FALSE /\ shtOK = FALSE
    /\ sdMounted = sdAvailable /\ fileExists = TRUE
    /\ fileNl = 0 /\ fileTail = FALSE
    /\ interval = (IF sdAvailable THEN INTERVAL_SD ELSE INTERVAL_NO_SD)
    /\ displayOn = FALSE /\ isMeasuring = FALSE /\ displayUpdateCount = 0
    /\ logCount = 0 /\ lastMeasureUnix = 0
    /\ dsConvPending = FALSE /\ sdFailCount = 0 /\ isBootPhase = FALSE
    /\ logCountAge = 0 /\ ret = "loop" /\ remaining = 0 /\ elapsed = 0
    /\ longSleep = FALSE /\ useRtcWake = FALSE /\ retryCount = 0
    /\ written = 0 /\ fOpen = FALSE /\ nowUnix = 0 /\ holdAge = 0
    /\ verifyOK = FALSE /\ verCounted = FALSE /\ actualCount = 0
    /\ button = FALSE /\ rtcUnix = 0 /\ sdRetryAge = 0
    /\ events = 0 /\ faults = 0 /\ cut = "none" /\ cntBefore = 0
    /\ logResult = "none" /\ tracked = 0 /\ recreated = FALSE
    /\ sht_retry_counter = 0 /\ waterTempValid = FALSE /\ shtProbed = FALSE
    /\ sentinel = FALSE /\ millisNow = 0 /\ dsConvReadyAt = 0 /\ convMs = 0
    /\ convAge = 0 /\ convWaited = 0 /\ dsRead = "none"
    /\ RowIdle /\ NapIdle /\ DrvIdle
    /\ hist = NoHist
    /\ \E first \in {HeaderLine, DataLine(3, 5, 7)},
          rest \in HistFiles(MaxHistLines) :
        csv = <<first>> \o rest
    /\ pc = "hist"

\* the call of readLastMeasurements() in displayOnFunc(), line 766
HistRead ==
    /\ pc = "hist"
    /\ \E open \in BOOLEAN :
        /\ hist' = ReadLastMeasurements(sdAvailable, open, csv)
        /\ pc' = (IF sdAvailable /\ open THEN "hist_read" ELSE "hist_none")
    /\ UNCHANGED <<cardMode, rtcOK, isMeasuring, isBootPhase, ret, nowUnix,
                   holdAge, logLocals, clockVars, verLocals, sleepLocals,
                   envVars, faults, storeVars, logCountAge, shtVars,
                   convVars, rowVars, napVars, drvVars, sensVars,
                   displayOn, displayUpdateCount, csv>>

HistNext == HistRead

SpecHist == HistInit /\ [][HistNext]_vars

\* ------------------------------------------------------------------------
\* The sleep loop of enterLightSleep() second by second. remaining is a
\* counter of NapBits bits (32 on the device, fewer here: its values stay
\* below 2^9). The call of wifi_fpm_do_sleep and the delays of 1 to 10 ms
\* take no time; the wait of the slice is where the time passes.
\* sincePress is the time the button has been down.
\* ------------------------------------------------------------------------
NapBits == 16
NapWrap == 2 ^ NapBits
\* how often the button is pressed during one sleep
MaxPresses == 2

\* the durations enterLightSleep() computes (1 .. interval)
NapRemainings == {1, 4, 5, 6, 11, INTERVAL_NO_SD, INTERVAL_SD}

\* a slice of SLICE_SEC whatever is left
NapSliceFixed(rem) == SLICE_SEC

\* uint32_t slice = (remaining > 5) ? 5 : remaining;  (line 1180)
NapSlice(rem) == IF rem > SLICE_SEC THEN SLICE_SEC ELSE rem

\* lines 1126-1173: remaining, longSleep and useRtcWake are set; the button
\* is up or has just been pressed
NapInit ==
    /\ cardMode = "good" /\ sdAvailable = FALSE /\ rtcOK = FALSE
    /\ displayOn = FALSE /\ isMeasuring = FALSE /\ displayUpdateCount = 0
    /\ logCount = 0 /\ lastMeasureUnix = 0 /\ interval = INTERVAL_NO_SD
    /\ dsConvPending = FALSE /\ sdFailCount = 0 /\ isBootPhase = FALSE
    /\ logCountAge = 0 /\ ret = "loop" /\ elapsed = 0
    /\ retryCount = 0 /\ ds18b20OK = FALSE
    /\ written = 0 /\ fOpen = FALSE /\ nowUnix = 0 /\ holdAge = 0
    /\ verifyOK = FALSE /\ verCounted = FALSE /\ actualCount = 0
    /\ rtcUnix = 0 /\ sdMounted = FALSE
    /\ fileExists = FALSE /\ fileNl = 0 /\ fileTail = FALSE /\ sdRetryAge = 0
    /\ events = 0 /\ faults = 0 /\ cut = "none" /\ cntBefore = 0
    /\ logResult = "none" /\ tracked = 0 /\ recreated = FALSE
    /\ shtOK = FALSE /\ sht_retry_counter = 0 /\ waterTempValid = FALSE
    /\ shtProbed = FALSE /\ sentinel = FALSE
    /\ millisNow = 0 /\ dsConvReadyAt = 0 /\ convMs = 0 /\ convAge = 0
    /\ convWaited = 0 /\ dsRead = "none"
    /\ RowIdle /\ HistIdle /\ DrvIdle
    /\ remaining \in NapRemainings
    /\ remaining0 = remaining
    /\ longSleep = (remaining > SD_SHUTDOWN_SEC)
    /\ useRtcWake = (remaining > RTC_WAKE_SEC)
    /\ button \in BOOLEAN
    /\ sliceLen = 0 /\ sliceLeft = 0 /\ slices = 0 /\ sincePress = 0
    /\ pc = "nap_top"

\* what the steps of the sleep loop leave alone
NapRest ==
    UNCHANGED <<cardMode, rtcOK, isMeasuring, isBootPhase, ret, nowUnix,
                holdAge, logLocals, clockVars, verLocals, elapsed, longSleep,
                useRtcWake, faults, storeVars, logCountAge, shtVars,
                convVars, rowVars, histVars, drvVars, sensVars, displayOn,
                displayUpdateCount, remaining0>>

\* lines 1175-1181: while (remaining > 0), the test of the button, slice and
\* the call of wifi_fpm_do_sleep
NapTop ==
    /\ pc = "nap_top"
    /\ IF remaining = 0
       THEN cut' = "full" /\ pc' = "nap_out" /\ UNCHANGED sliceLen
       ELSE IF button
       THEN cut' = "button" /\ pc' = "nap_out" /\ UNCHANGED sliceLen
       ELSE sliceLen' = NapSlice(remaining) /\ pc' = "nap_read"
                                             /\ UNCHANGED cut
    /\ UNCHANGED <<remaining, sliceLeft, slices, sincePress, envVars>>
    /\ NapRest

\* lines 1185-1193: the two wake lines are read; line is the level of
\* PIN_WAKE_RX
NapRead ==
    /\ pc = "nap_read"
    /\ \E line \in BOOLEAN :
        LET rtcLow == useRtcWake /\ line
        IN  IF ~button /\ ~rtcLow
            THEN sliceLeft' = sliceLen /\ pc' = "nap_wait"
                                       /\ UNCHANGED cut
            ELSE /\ cut' = (IF button THEN "button" ELSE "rtc")
                 /\ pc' = "nap_out" /\ UNCHANGED sliceLeft
    /\ UNCHANGED <<remaining, sliceLen, slices, sincePress, envVars>>
    /\ NapRest

\* one second of delay(slice * 1000UL), line 1189
NapTick ==
    /\ pc = "nap_wait" /\ sliceLeft > 0
    /\ sliceLeft' = sliceLeft - 1
    /\ sincePress' = (IF button THEN sincePress + 1 ELSE 0)
    /\ UNCHANGED <<pc, cut, remaining, sliceLen, slices, envVars>>
    /\ NapRest

\* remaining -= slice;  (line 1190)
NapWaited ==
    /\ pc = "nap_wait" /\ sliceLeft = 0
    /\ remaining' = (remaining - sliceLen) % NapWrap
    /\ slices' = slices + 1
    /\ pc' = "nap_top"
    /\ UNCHANGED <<cut, sliceLen, sliceLeft, sincePress, envVars>>
    /\ NapRest

\* the button goes down during the sleep
NapPress ==
    /\ pc \in {"nap_top", "nap_read", "nap_wait"}
    /\ ~button /\ events < MaxPresses
    /\ button' = TRUE /\ events' = events + 1
    /\ sincePress' = 0
    /\ UNCHANGED <<pc, cut, remaining, sliceLen, sliceLeft, slices>>
    /\ NapRest

\* the button goes up again
NapRelease ==
    /\ pc \in {"nap_top", "nap_read", "nap_wait"}
    /\ button
    /\ button' = FALSE
    /\ sincePress' = 0
    /\ UNCHANGED <<pc, cut, remaining, sliceLen, sliceLeft, slices, events>>
    /\ NapRest

NapProg == NapTop \/ NapRead \/ NapTick \/ NapWaited

NapNext == NapProg \/ NapPress \/ NapRelease

\* the processor runs and time passes
SpecNap == NapInit /\ [][NapNext]_vars /\ WF_vars(NapProg)

\* ------------------------------------------------------------------------
\* The DS18B20 driver. A conversion is named by the call that requested it:
\* the number of the measureAndLog cycle (sht_retry_counter, which that
\* function counts up once a call), or FromDisplay for measureDisplay; 0 is
\* no conversion. requestTemperatures() returns when the conversion is done
\* if the driver waits for conversions, and at once if it does not: the
\* scratchpad then still holds the result of the conversion before.
\* ------------------------------------------------------------------------
FromDisplay == 0 - 1

\* requestTemperatures(); getTempCByIndex(0);  (lines 906-907): the
\* conversion the value read comes from
RequestAndRead(wait, held, cyc) == IF wait THEN cyc ELSE held

\* after initSensors(): ds18b20.begin() was called and a probe was or was
\* not found
DrvInit ==
    /\ cardMode = "good" /\ sdAvailable = FALSE /\ rtcOK = FALSE
    /\ displayOn = FALSE /\ isMeasuring = FALSE /\ displayUpdateCount = 0
    /\ logCount = 0 /\ lastMeasureUnix = 0 /\ interval = INTERVAL_NO_SD
    /\ dsConvPending = FALSE /\ sdFailCount = 0 /\ isBootPhase = FALSE
    /\ logCountAge = 0 /\ ret = "loop" /\ remaining = 0 /\ elapsed = 0
    /\ longSleep = FALSE /\ useRtcWake = FALSE /\ retryCount = 0
    /\ written = 0 /\ fOpen = FALSE /\ nowUnix = 0 /\ holdAge = 0
    /\ verifyOK = FALSE /\ verCounted = FALSE /\ actualCount = 0
    /\ button = FALSE /\ rtcUnix = 0 /\ sdMounted = FALSE
    /\ fileExists = FALSE /\ fileNl = 0 /\ fileTail = FALSE /\ sdRetryAge = 0
    /\ events = 0 /\ faults = 0 /\ cut = "none" /\ cntBefore = 0
    /\ logResult = "none" /\ tracked = 0 /\ recreated = FALSE
    /\ shtOK = FALSE /\ sht_retry_counter = 0 /\ waterTempValid = FALSE
    /\ shtProbed = FALSE /\ sentinel = FALSE
    /\ millisNow = 0 /\ dsConvReadyAt = 0 /\ convMs = 0 /\ convAge = 0
    /\ convWaited = 0 /\ dsRead = "none"
    /\ ds18b20OK \in BOOLEAN
    /\ RowIdle /\ HistIdle /\ NapIdle /\ DrvIdle
    /\ pc = "drv_boot"

\* what the steps of SpecDrv leave alone
DrvRest ==
    UNCHANGED <<cardMode, rtcOK, isMeasuring, isBootPhase, ret, nowUnix,
                holdAge, logLocals, clockVars, verLocals, sleepLocals,
                envVars, faults, storeVars, logCountAge, convVars, rowVars,
                histVars, napVars, shtOK, shtProbed>>

\* measureAndLog(), lines 875-917, called by setup(), by loop() when the
\* interval has elapsed and after a timer wake; valid tells a value that is
\* no sentinel code
DrvMeasureAndLog ==
    /\ pc \in {"drv_boot", "drv_loop", "drv_sleep"}
    /\ sht_retry_counter < MaxCycles
    /\ sht_retry_counter' = sht_retry_counter + 1
    /\ \E valid \in BOOLEAN :
        /\ ds18b20OK \/ valid
        /\ ds18b20OK' = (ds18b20OK /\ valid)
        /\ waterTempValid' = (ds18b20OK /\ valid)
        /\ sentinel' = (ds18b20OK /\ ~valid)
        /\ tWaterFrom' =
              (IF ds18b20OK /\ valid
               THEN RequestAndRead(waitForConversion, scratch,
                                   sht_retry_counter')
               ELSE tWaterFrom)
    /\ scratch' = (IF ds18b20OK THEN sht_retry_counter' ELSE scratch)
    /\ pc' = "drv_loop"
    /\ UNCHANGED <<waitForConversion, dsConvPending, displayOn,
                   displayUpdateCount>>
    /\ DrvRest

\* a measureDisplay() that waits for the conversion and reads it
DrvMeasureDisplayBlocking ==
    /\ pc = "drv_sleep"
    /\ displayOn' = TRUE /\ displayUpdateCount' = 0
    /\ \E valid \in BOOLEAN :
        /\ ds18b20OK \/ valid
        /\ ds18b20OK' = (ds18b20OK /\ valid)
        /\ waterTempValid' = (ds18b20OK /\ valid)
        /\ sentinel' = (ds18b20OK /\ ~valid)
        /\ tWaterFrom' = (IF ds18b20OK /\ valid THEN FromDisplay
                                                ELSE tWaterFrom)
    /\ scratch' = (IF ds18b20OK THEN FromDisplay ELSE scratch)
    /\ pc' = "drv_shown"
    /\ UNCHANGED <<dsConvPending, waitForConversion, sht_retry_counter>>
    /\ DrvRest

\* measureDisplay(), lines 932-968, called after a button wake (line 1211)
\* behind displayOnFunc()
DrvMeasureDisplay ==
    /\ pc = "drv_sleep"
    /\ displayOn' = TRUE /\ displayUpdateCount' = 0
    /\ waterTempValid' = FALSE
    /\ IF ds18b20OK
       THEN /\ dsConvPending' = TRUE
            /\ waitForConversion' = FALSE
            /\ scratch' = FromDisplay
       ELSE UNCHANGED <<dsConvPending, waitForConversion, scratch>>
    /\ pc' = "drv_shown"
    /\ UNCHANGED <<ds18b20OK, sentinel, tWaterFrom, sht_retry_counter>>
    /\ DrvRest

\* updateDisplay(), lines 771-787, called behind measureDisplay() (line
\* 1212), by loop() and by the hold loop once a second
DrvUpdateDisplay ==
    /\ pc \in {"drv_shown", "drv_loop"}
    /\ displayOn /\ displayUpdateCount < DISPLAY_TICKS
    /\ \E ready \in BOOLEAN, valid \in BOOLEAN :
        LET u == UpdateDisplay(TRUE, ds18b20OK, dsConvPending,
                               displayUpdateCount, ready, valid)
            read == dsConvPending /\ ready
        IN  /\ read \/ (valid /\ ~ready)
            /\ pc = "drv_shown" => ~ready
            /\ ds18b20OK' = u.dsok
            /\ dsConvPending' = u.pend
            /\ displayUpdateCount' = u.cnt
            /\ waterTempValid' = (waterTempValid \/ (read /\ valid))
            /\ sentinel' = (read /\ ~valid)
            /\ tWaterFrom' = (IF read /\ valid THEN scratch ELSE tWaterFrom)
    /\ pc' = "drv_loop"
    /\ UNCHANGED <<waitForConversion, scratch, displayOn, sht_retry_counter>>
    /\ DrvRest

\* loop(), lines 1314-1316: displayOff() after DISPLAY_TICKS updates
DrvDisplayOff ==
    /\ pc = "drv_loop"
    /\ displayOn /\ displayUpdateCount >= DISPLAY_TICKS
    /\ displayOn' = FALSE
    /\ sentinel' = FALSE
    /\ UNCHANGED <<pc, waitForConversion, scratch, tWaterFrom, ds18b20OK,
                   dsConvPending, displayUpdateCount, waterTempValid,
                   sht_retry_counter>>
    /\ DrvRest

\* enterLightSleep(), lines 1103-1119: a pending conversion is read when its
\* deadline passes within 2 s (ready) and given up otherwise
DrvPreSleep ==
    /\ pc = "drv_loop"
    /\ ~displayOn
    /\ \E ready \in BOOLEAN, valid \in BOOLEAN :
        LET read == dsConvPending /\ ready
        IN  /\ read \/ (valid /\ ~ready)
            /\ waterTempValid' = (waterTempValid \/ (read /\ valid))
            /\ sentinel' = (read /\ ~valid)
            /\ tWaterFrom' = (IF read /\ valid THEN scratch ELSE tWaterFrom)
    /\ dsConvPending' = FALSE
    /\ pc' = "drv_sleep"
    /\ UNCHANGED <<waitForConversion, scratch, ds18b20OK, displayOn,
                   displayUpdateCount, sht_retry_counter>>
    /\ DrvRest

DrvNext ==
    \/ DrvMeasureAndLog
    \/ DrvMeasureDisplay
    \/ DrvUpdateDisplay
    \/ DrvDisplayOff
    \/ DrvPreSleep

SpecDrv == DrvInit /\ [][DrvNext]_vars

\* ------------------------------------------------------------------------
\* Properties
\* ------------------------------------------------------------------------

\* C1: for every interval, lastMeasureUnix, clock reading and rtcOK the sleep
\* duration computed by enterLightSleep lies in 1..MAX_SLEEP_SEC when the
\* slice loop starts
C1_RemainingInRange ==
    pc = "calc_sleep" => (1 <= remaining /\ remaining <= MAX_SLEEP_SEC)

\* the duration was cut down to MAX_SLEEP_SEC, and it was raised to 1
C1_Witness ==
    /\ pc = "calc_sleep"
    /\ \/ interval > MAX_SLEEP_SEC /\ remaining = MAX_SLEEP_SEC
       \/ rtcOK /\ rtcUnix - lastMeasureUnix > interval /\ remaining = 1

\* C2: in loop() and in enterLightSleep elapsed is now - lastMeasureUnix when
\* now >= lastMeasureUnix and 0 when the clock reads less than
\* lastMeasureUnix; whenever elapsed >= interval the duration computed is 1
C2_ElapsedGuarded ==
    (pc \in {"calc_loop", "calc_due", "calc_sleep"} /\ rtcOK) =>
        /\ rtcUnix >= lastMeasureUnix => elapsed + lastMeasureUnix = rtcUnix
        /\ rtcUnix < lastMeasureUnix => elapsed = 0
        /\ (pc = "calc_sleep" /\ elapsed >= interval) => remaining = 1

\* interval 240 and elapsed 250 give a duration of 1
C2_Witness ==
    /\ pc = "calc_sleep" /\ rtcOK
    /\ interval = INTERVAL_SD /\ elapsed = 250 /\ remaining = 1

\* C3: on wake measureAndLog runs only when the sleep ran its full duration
\* or the clock-interrupt line woke it; a sleep cut short by the button line
\* is never followed by a logging measurement
C3_WakeLogsOnlyWhenDue ==
    [][(pc = "woken" /\ pc' = "mal") => cut \in {"full", "rtc"}]_vars

\* C4: whatever the button does and whether or not the clock is available,
\* measureAndLog is executed again and again
C4_MeasuresAgain == []<>(pc = "mal")

\* C5: whatever fails, the scheduler enters the sleep loop of enterLightSleep
\* again and again
C5_SleepAgain == []<>(pc = "slice")

\* a sleep begins with no card in the slot, no clock, no probe, and the card
\* given up
C5_Witness ==
    /\ pc = "slice" /\ cardMode = "absent" /\ ~rtcOK /\ ~ds18b20OK
    /\ ~sdAvailable /\ sdFailCount >= SD_MAX_RETRIES

\* C6: when a sleep slice begins no conversion is pending and no measurement
\* or write is in progress; enterLightSleep does not shut the card down while
\* an append or a verify is outstanding, and a file is open only on a card
\* that is mounted
C6_QuietSleep ==
    /\ pc \in {"slice", "slice_wake"} => ~dsConvPending
    /\ pc \in {"pre_sleep", "slice", "slice_wake"} => (~isMeasuring /\ ~fOpen)
    /\ fOpen => (sdMounted /\ isMeasuring)

\* a long sleep begins after a button wake that started a conversion: the
\* card is shut down, nothing is pending
C6_Witness ==
    /\ pc = "slice" /\ events > 0 /\ ds18b20OK /\ ~dsConvPending
    /\ longSleep /\ sdAvailable /\ ~sdMounted

\* C7: after a successful logData a counting pass yields the count of a
\* counting pass made before the call, plus 1
C7_AppendAddsOne ==
    (pc = "verify" /\ logResult = "ok") =>
        CountLogEntries(St, NoFault) = cntBefore + 1

\* C8: logData increments logCount only after a write of more than 0 bytes
\* and after the file was closed; no failing path increments it
C8_CommitAfterWrite ==
    [][(pc \in {"log_iter", "log_write", "log_close", "log_commit"}
        /\ logCount' > logCount)
       => (pc = "log_commit" /\ written > 0 /\ ~fOpen
           /\ logCount' = logCount + 1)]_vars

\* logData has counted a row that was written and closed
C8_Witness ==
    pc = "verify" /\ logResult = "ok" /\ written > 0 /\ ~fOpen /\ logCount > 0

\* C9: a verifyLastWrite that reaches its counting pass leaves logCount equal
\* to the count observed; it returns false and leaves sdAvailable alone when
\* fewer rows than tracked are observed, and returns true otherwise; the next
\* append that succeeds adds 1 to the count observed
C9_VerifyResyncs ==
    [][/\ (pc = "verify" /\ verCounted') =>
            /\ logCount' = actualCount'
            /\ verifyOK' = (actualCount' >= logCount)
            /\ actualCount' < logCount =>
                (sdAvailable' = sdAvailable /\ interval' = interval)
       /\ (pc = "log_commit" /\ written > 0) => logCount' = logCount + 1
      ]_vars

\* fewer rows than tracked were observed: logCount is lowered, the result is
\* false and the card stays available
C9_Witness ==
    /\ pc = "mal_end" /\ verCounted /\ ~verifyOK
    /\ actualCount < tracked /\ logCount = actualCount /\ sdAvailable

\* C10: between the operations /data.csv holds at most one row more than
\* logCount counts
C10_RowsTracked ==
    (pc \in {"loop", "pre_sleep", "slice", "slice_wake", "woken"}
     /\ sdAvailable /\ sdMounted)
        => CountRows(St) <= logCount + 1

C12_LogDataGivesUp ==
    /\ retryCount <= MAX_LOG_RETRIES
    /\ (pc = "verify" /\ logResult = "fail")
            => (~sdAvailable /\ interval = INTERVAL_NO_SD)

\* two iterations failed and the call returned without a row
C12_Witness ==
    /\ pc = "verify" /\ logResult = "fail"
    /\ retryCount = MAX_LOG_RETRIES
    /\ ~sdAvailable /\ interval = INTERVAL_NO_SD

\* C13: a rotation of the log file that begins on an available, mounted card
\* and leaves the card available ends with data.csv holding the header and
\* no data row, and with logCount = 0
C13_RotateLeavesHeaderOnly ==
    [][(pc = "hold_done" /\ pc' = "debounce" /\ button
        /\ sdAvailable /\ sdMounted /\ sdAvailable')
            => (fileExists' /\ fileNl' <= 1 /\ logCount' = 0)]_vars

\* C14: a step of the program that calls reinitSD (setup, an iteration of
\* logData, the rotation, the wake by button or by timer) and ends with the
\* card not mounted, which is how the call ends when it returns false, ends
\* with sdAvailable false
C14_FailedReinitMarksUnavailable ==
    [][(/\ button' = button
        /\ \/ pc = "boot"
           \/ (pc = "log_iter" /\ retryCount < MAX_LOG_RETRIES
               /\ ~sdAvailable /\ sdFailCount < SD_MAX_RETRIES)
           \/ (pc = "hold_done" /\ button /\ ~sdAvailable)
           \/ (pc = "woken" /\ (longSleep \/ ~sdAvailable))
        /\ ~sdMounted')
            => ~sdAvailable']_vars

\* C16: reinitSD called while the card is marked available and no failure is
\* recorded, which is the call after the wake from a long sleep, leaves the
\* bus, the card, the file and the storage flags as they were
C16_ReinitIdempotent ==
    [][(pc = "woken" /\ button' = button /\ longSleep
        /\ sdAvailable /\ sdFailCount = 0)
            => UNCHANGED <<sdMounted, fileExists, fileNl, fileTail,
                           sdAvailable, sdFailCount, interval>>]_vars

\* C15: while the card keeps failing, a call of reinitSD less than
\* SD_RETRY_INTERVAL after the last attempt makes no attempt: neither the
\* counter nor the time of the last attempt changes
C15_CoolDownHolds ==
    [][(pc = "retry_wake" /\ sdRetryAge < SD_RETRY_INTERVAL \div 1000)
            => UNCHANGED <<sdFailCount, sdRetryAge>>]_vars

\* C18: no conversion is requested from the DS18B20 while one is pending:
\* neither measureAndLog nor measureDisplay runs its request (made when
\* ds18b20OK) with dsConvPending true
C18_OneConversionOutstanding ==
    [][((\/ (pc = "mal" /\ pc' # "mal")
         \/ (pc = "woken" /\ pc' = "hold"))
        /\ ds18b20OK)
            => ~dsConvPending]_vars

\* C17: sht31.begin is called for an SHT3x marked not working only in an
\* acquisition whose sht_retry_counter is a multiple of SHT_RETRY_INTERVAL,
\* in measureAndLog and in measureDisplay alike
C17_ProbeOnlyOnMultiples ==
    shtProbed => sht_retry_counter % SHT_RETRY_INTERVAL = 0

\* C20: a step in which the DS18B20 returns a sentinel code does not set
\* waterTempValid and ends with ds18b20OK false
C20_SentinelMarksUnhealthy ==
    [][sentinel' => (~ds18b20OK' /\ (waterTempValid' => waterTempValid))]_vars

\* C19: the result of an asynchronous conversion is read, by updateDisplay
\* or before the sleep, only when at least the conversion delay has passed
\* since the request
C19_ReadAfterDelay ==
    dsRead # "none" => convAge >= convMs

\* C21: when enterLightSleep computes the sleep duration, interval is
\* INTERVAL_SD if the card is marked available and INTERVAL_NO_SD if not
C21_IntervalFollowsStorage ==
    pc = "pre_sleep" =>
        interval = (IF sdAvailable THEN INTERVAL_SD ELSE INTERVAL_NO_SD)

C25_HeaderIsRowZero ==
    [][/\ (sdMounted' /\ sdAvailable' /\ ~(sdMounted /\ sdAvailable))
            => (fileExists' /\ fileNl' >= 1)
       /\ (pc = "log_write" /\ fileNl' > fileNl) => fileNl >= 1
      ]_vars

\* C26: a call of measureAndLog with rtcOK false runs to its end: the
\* Reading gets the placeholder time stamp, the sensors that are in use are
\* read, the row is appended exactly when storage is available, and
\* lastMeasureUnix is assigned (the value 0); with or without the clock,
\* the local time stamp of a row is the one taken in the row's own cycle
C26_CycleWithoutClock ==
    [][sht_retry_counter' = sht_retry_counter + 1 =>
        /\ ~rtcOK =>
            /\ dataTs' = [kind |-> "placeholder", cyc |-> sht_retry_counter']
            /\ nowUnix' = 0 /\ lastMeasureUnix' = nowUnix'
            /\ shtOK => (shtValid' \/ ~shtOK')
            /\ ds18b20OK => (waterTempValid' \/ ~ds18b20OK')
            /\ fileNl' = (IF sdAvailable THEN fileNl + 1 ELSE fileNl)
            /\ pc' = "row_run"
        /\ sdAvailable =>
            /\ row'.tsLocal = dataTs'
            /\ row'.tsLocal.cyc = sht_retry_counter'
      ]_vars

\* two rows were appended without the clock, the second one after a button
\* wake had put a clock reading into data.ts and the display had timed out
C26_Witness ==
    /\ ~rtcOK /\ sdAvailable /\ logCount >= 2
    /\ ~displayOn /\ displayUpdateCount = DISPLAY_TICKS
    /\ row.tsLocal = [kind |-> "placeholder", cyc |-> sht_retry_counter]
    /\ dataTs = row.tsLocal /\ row.sht_ok = 1

\* C27: without the clock (rtcOK false) the interval counts as met: the
\* elapsed time used is at least the interval, and enterLightSleep computes
\* a sleep of 1 s
C27_NoClockDueAtOnce ==
    (pc \in {"calc_loop", "calc_due", "calc_sleep"} /\ ~rtcOK) =>
        /\ elapsed >= interval
        /\ pc = "calc_sleep" => remaining = 1

\* C28: the handling of a button wake without a long press (the wake with
\* displayOnFunc, measureDisplay and updateDisplay, the hold loop, the test
\* of the button that finds it released, the debounce) adds no line to
\* /data.csv other than the header line reinitSD writes when it does not
\* find the file or cannot open it, never passes through logData, and
\* does not move lastMeasureUnix: the clock reading relative to it is kept
\* by the wake and only grows while time passes; that reading falls only
\* in setup(), at the end of measureAndLog, or when the clock itself is set
\* back
C28_ButtonWakeLogsNothing ==
    [][/\ (\/ pc = "woken" /\ button /\ pc' # "woken"
           \/ pc = "hold" /\ pc' # "hold"
           \/ pc = "hold_done" /\ ~button /\ pc' # "hold_done"
           \/ pc = "debounce" /\ pc' # "debounce")
          => /\ pc' \in {"hold", "hold_done", "debounce", "loop"}
             /\ \/ fileNl' = fileNl
                \/ pc = "woken" /\ (longSleep \/ ~sdAvailable)
                   /\ fileNl' \in {1, fileNl + 1}
             /\ pc = "woken" => (rtcUnix' = rtcUnix
                                 /\ lastMeasureUnix' = lastMeasureUnix)
             /\ rtcUnix' - lastMeasureUnix' >= rtcUnix - lastMeasureUnix
       /\ rtcUnix' - lastMeasureUnix' < rtcUnix - lastMeasureUnix
          => (pc \in {"boot", "mal_end"} \/ (pc = "slice_wake" /\ pc' = pc))
      ]_vars

\* a button wake 60 s or more after the last measurement was handled, the
\* button was released early, and the debounce is about to end
C28_Witness ==
    /\ pc = "debounce" /\ ~button /\ holdAge = 0 /\ displayOn /\ rtcOK
    /\ rtcUnix >= INTERVAL_NO_SD /\ lastMeasureUnix = 0
    /\ sdAvailable /\ fileNl >= 2

\* C29: when the test of the button after the hold loop has been made, the
\* log file was rotated and the display switched on again (displayOnFunc
\* sets displayUpdateCount to 0) exactly when the hold loop had run for
\* LONG_PRESS_MS with the button held
C29_RotateIffHeldToThreshold ==
    [][(pc = "hold_done" /\ pc' = "debounce") =>
          ((displayOn' /\ displayUpdateCount' = 0)
              = (holdAge >= LONG_PRESS_MS \div 1000))]_vars

\* C30: after readLastMeasurements has read a file whose lines after the
\* first hold n rows, the snapshot is valid exactly when n > 0 and its
\* entries 0 .. min(n,3)-1 hold temperature, humidity and water temperature
\* of the last min(n,3) rows, the oldest of them first, the others 0
C30_LastRowsOldestFirst ==
    pc = "hist_read" =>
        LET rows == SelectSeq(Tail(csv), LAMBDA l : l # <<>>)
            n == Len(rows)
            k == Min(n, 3)
        IN  /\ hist.valid = (n > 0)
            /\ \A j \in 1..3 :
                /\ hist.t[j] = (IF j <= k THEN LineField(rows[n - k + j], 3)
                                ELSE 0)
                /\ hist.h[j] = (IF j <= k THEN LineField(rows[n - k + j], 4)
                                ELSE 0)
                /\ hist.tWater[j] = (IF j <= k
                                     THEN LineField(rows[n - k + j], 6)
                                     ELSE 0)

\* C31: in the sleep loop a button that is down has been down for at most
\* one slice; a slice is between 1 and SLICE_SEC seconds and at most
\* remaining; remaining never grows and never wraps; a loop that ends with
\* no wake line asserted has run ceil(remaining / 5) slices; and the loop
\* ends
C31_SleepLoop ==
    /\ [][/\ (pc' \in {"nap_top", "nap_read", "nap_wait"} /\ button')
                => sincePress' <= SLICE_SEC
          /\ pc' \in {"nap_read", "nap_wait"}
                => (1 <= sliceLen' /\ sliceLen' <= SLICE_SEC
                    /\ sliceLen' <= remaining')
          /\ remaining' # remaining
                => (remaining' < remaining /\ remaining - remaining' = sliceLen)
          /\ (pc' = "nap_out" /\ cut' = "full")
                => slices' = (remaining0 + SLICE_SEC - 1) \div SLICE_SEC
         ]_vars
    /\ <>(pc = "nap_out")

\* the button went down at the start of a wait of a whole slice, stayed
\* down, and the loop was left at the next test, after one slice
C31_Witness ==
    /\ pc = "nap_out" /\ cut = "button" /\ button
    /\ sincePress = SLICE_SEC /\ slices >= 1 /\ remaining > 0

\* C32 as the claim has it: a measureAndLog that finds the probe in order
\* leaves a conversion pending, and measureDisplay leaves none
C32_CycleAsyncDisplayBlocking ==
    [][/\ (sht_retry_counter' # sht_retry_counter /\ ds18b20OK')
             => dsConvPending'
       /\ (pc' = "drv_shown" /\ ds18b20OK') => ~dsConvPending'
      ]_vars

\* C32: measureAndLog requests and reads the probe in the same call: the
\* scratchpad then belongs to the conversion of that cycle, data.tWater has
\* been read if the value is no sentinel code, and dsConvPending is as
\* it was; measureDisplay with the probe in order leaves the conversion it
\* requested pending and reads nothing
C32_CycleReadsDisplayDefers ==
    [][/\ (sht_retry_counter' # sht_retry_counter /\ ds18b20OK)
             => /\ dsConvPending' = dsConvPending
                /\ scratch' = sht_retry_counter'
                /\ waterTempValid' = ds18b20OK'
                /\ ds18b20OK' => tWaterFrom' \in {scratch, scratch'}
       /\ (pc' = "drv_shown" /\ ds18b20OK)
             => /\ dsConvPending' /\ scratch' = FromDisplay
                /\ ~waterTempValid' /\ tWaterFrom' = tWaterFrom
      ]_vars

\* both cases: a conversion of the display is pending and a cycle has read
\* the probe before
C32_Witness ==
    /\ pc = "drv_shown" /\ ds18b20OK /\ dsConvPending
    /\ scratch = FromDisplay /\ tWaterFrom >= 1

\* C35 as the claim has it: whenever measureAndLog reads the probe the
\* driver waits for conversions, and a value it stores comes from the
\* conversion of that cycle
C35_CycleReadsOwnConversion ==
    [][(sht_retry_counter' # sht_retry_counter /\ ds18b20OK)
          => /\ waitForConversion
             /\ ds18b20OK' => tWaterFrom' = sht_retry_counter'
      ]_vars

\* C33: sdAvailable goes from false to true only in a step that calls
\* reinitSD() (the boot, the wake from sleep, the retry in loop(), the
\* recovery in logData(), rotateLogFile() after a long press), the card is
\* then mounted, sdFailCount is 0 and interval is INTERVAL_SD
C33_RestoredByReinitOnly ==
    [][(~sdAvailable /\ sdAvailable')
          => /\ pc \in {"boot", "slice_wake", "woken", "loop", "log_iter",
                        "hold_done"}
             /\ sdMounted'
             /\ sdFailCount' = 0
             /\ interval' = INTERVAL_SD
      ]_vars

\* logData() found the card unavailable on its second iteration, its
\* reinitSD() succeeded and the file is open for the row
C33_Witness ==
    /\ pc = "log_write" /\ retryCount = 1 /\ fOpen
    /\ sdAvailable /\ sdMounted /\ sdFailCount = 0 /\ interval = INTERVAL_SD

\* C34 as the claim has it: the card is mounted whenever a file operation is
\* made on it: the row count of displayOnFunc() after a button wake (made
\* when sdAvailable is true) and the SD.exists of logData() (reached when
\* sdAvailable is true)
C34_NoFileOpWhileReleased ==
    [][/\ (pc = "woken" /\ pc' = "hold" /\ sdAvailable') => sdMounted'
       /\ (pc = "log_iter" /\ sdAvailable) => sdMounted
      ]_vars

\* C36: one println of logData() adds at most one line and adds nothing
\* when it reports no byte; logData() comes to a write only while no write
\* of the same call has put a byte into the file, and leaves after a write
\* that has; measureAndLog() enters logData() once, from its own start
C36_OneRowPerCycle ==
    [][/\ pc = "log_write"
            => /\ fileNl' <= fileNl + 1
               /\ written' = 0 => (fileNl' = fileNl /\ fileTail' = fileTail)
       /\ pc' \in {"log_iter", "log_write"} => written' = 0
       /\ (pc = "log_commit" /\ written > 0) => pc' = "verify"
       /\ (pc' = "log_iter" /\ pc # "log_iter")
            => (pc = "mal" \/ (pc = "log_commit" /\ written = 0))
       /\ (pc = "verify" \/ pc = "mal_end") => pc' \notin {"log_iter", "mal"}
      ]_vars

\* an iteration of logData() failed and the second one wrote the row
C36_Witness ==
    /\ pc = "verify" /\ logResult = "ok" /\ retryCount = 1
    /\ written = RowLen /\ ~fOpen /\ fileNl >= 2

\* C37: interval is INTERVAL_NO_SD or INTERVAL_SD, remaining is never more
\* than INTERVAL_SD, what enterLightSleep() computes is the value before
\* the clamp to MAX_SLEEP_SEC, and useRtcWake is never true
C37_RtcWakeNeverArmed ==
    [][/\ interval' \in {INTERVAL_NO_SD, INTERVAL_SD}
       /\ remaining' <= INTERVAL_SD
       /\ ~useRtcWake'
       /\ pc = "pre_sleep"
            => remaining' =
                 (IF ~rtcOK THEN interval
                  ELSE IF Elapsed(rtcUnix, lastMeasureUnix) < interval
                  THEN interval - Elapsed(rtcUnix, lastMeasureUnix)
                  ELSE 1)
      ]_vars

\* the longest sleep: a whole interval with the card in use
C37_Witness ==
    /\ pc = "slice" /\ remaining = INTERVAL_SD /\ interval = INTERVAL_SD
    /\ longSleep /\ ~useRtcWake

=============================================================================
